---- MODULE Spec2Model ----
(***************************************************************************)
(* The xDEVS simulation kernel: the abstract simulator of atomic and       *)
(* coupled models (Simulator::start/stop/collection/transition/            *)
(* clear_ports) and the root coordinator that drives it                    *)
(* (RootCoordinator::simulate_time / simulate_steps).                      *)
(*                                                                         *)
(* The repository holds two implementations of the coupled simulator:      *)
(*   "simulation" : src/src/simulation.rs, impl Simulator for Coupled      *)
(*                  (children in a Vec; EICs and ICs together in `xics`,   *)
(*                  propagated in transition; children cleared in          *)
(*                  transition)                                            *)
(*   "modeling"   : src/src/modeling/coupled.rs, impl Simulator for Coupled*)
(*                  (children in a HashMap; ICs and EOCs propagated in     *)
(*                  collection, EICs in transition; recursive clear_ports) *)
(* The variable impl selects the one a behaviour runs.                     *)
(*                                                                         *)
(* The recursion over the component tree is modelled with an explicit call *)
(* stack: one frame per coupled model being executed, holding the          *)
(* operation and the position in its body.  An atomic's handler runs as    *)
(* one step of its parent's frame.                                         *)
(***************************************************************************)
EXTENDS Integers, Sequences, FiniteSets, TLC

(* ------------------------------ bounds --------------------------------- *)

\* Largest finite simulation time an atomic may schedule itself at.
MaxTime == 2

\* Largest n passed to simulate_steps.
MaxSteps == 2

\* Bound on the number of ports the coupled model under construction is given.
MaxPorts == 2

(* ------------------------------ time ----------------------------------- *)

\* f64::INFINITY, as an integer larger than every finite time of the model.
Inf == 1000

\* f64 addition on [0, +inf]: anything plus infinity is infinity.
Plus(a, b) == IF a >= Inf \/ b >= Inf THEN Inf ELSE a + b

\* The values ta() may return (spec: ta() in [0, +inf]).
TaSet == {0, 1, Inf}

(* --------------------------- the model tree ---------------------------- *)
(* The coupled model the coordinator is built on is one of                 *)
(*   "tree":   top = { A, sub = { B }, emp = { } }, coupled as below       *)
(*   "single": top = { A }, no couplings                                   *)
(*   "pair":   top = { A, B }, one IC from A's output to B's input         *)

VARIABLE shape

Root == "top"

Atomics == {"A", "B"}

Coupleds == {"top", "sub", "emp"}

Nodes == Atomics \cup Coupleds

\* Children of a coupled model, in add_component order.
Components(n) ==
    CASE n = "top" /\ shape = "tree"   -> <<"A", "sub", "emp">>
      [] n = "top" /\ shape = "single" -> <<"A">>
      [] n = "top" /\ shape = "pair"   -> <<"A", "B">>
      [] n = "sub" /\ shape = "tree"   -> <<"B">>
      [] OTHER     -> <<>>

\* Input ports of a component, in add_in_port order.
InPorts(n) ==
    CASE n = "top" -> <<"top.in">>
      [] n = "sub" -> <<"sub.in">>
      [] n = "A"   -> <<"A.in">>
      [] n = "B"   -> <<"B.in">>
      [] OTHER     -> <<>>

\* Output ports of a component, in add_out_port order.
OutPorts(n) ==
    CASE n = "top" -> <<"top.out">>
      [] n = "sub" -> <<"sub.out">>
      [] n = "A"   -> <<"A.out">>
      [] n = "B"   -> <<"B.out">>
      [] OTHER     -> <<>>

Range(s) == {s[i] : i \in 1..Len(s)}

PortsOf(n) == Range(InPorts(n)) \cup Range(OutPorts(n))

AllPorts == UNION {PortsOf(n) : n \in Nodes}

\* A coupling is <<source port, destination port>>.
\* External input couplings of a coupled model, in add_eic order.
EIC(n) ==
    CASE n = "top" /\ shape = "tree" -> << <<"top.in", "A.in">> >>
      [] n = "sub" /\ shape = "tree" -> << <<"sub.in", "B.in">> >>
      [] OTHER     -> <<>>

\* Internal couplings of a coupled model, in add_ic order.
IC(n) ==
    CASE n = "top" /\ shape = "tree" -> << <<"A.out", "sub.in">>, <<"sub.out", "A.in">> >>
      [] n = "top" /\ shape = "pair" -> << <<"A.out", "B.in">> >>
      [] OTHER     -> <<>>

\* External output couplings of a coupled model, in add_eoc order.
EOC(n) ==
    CASE n = "top" /\ shape = "tree" -> << <<"A.out", "top.out">>, <<"sub.out", "top.out">> >>
      [] n = "sub" /\ shape = "tree" -> << <<"B.out", "sub.out">> >>
      [] OTHER     -> <<>>

\* simulation.rs keeps EICs and ICs in one list, `xics`.
XIC(n) == EIC(n) \o IC(n)

(* ----------------------------- construction ---------------------------- *)
(* Component::new / add_in_port / add_out_port / get_in_port / get_out_port *)
(* and Coupled::new / add_component / add_eic / add_ic / add_eoc.  A call  *)
(* returns [err, val]: err is "none" or the kind of the panic, val is the  *)
(* object as the call leaves it.                                           *)

\* The port names, element types and component names construction uses.
PortNames == {"p", "q"}

ElementTypes == {"i32", "i64"}

ComponentNames == {"c", "d"}

EmptyMap == [k \in {} |-> 0]

\* HashMap::insert(k, v)
Put(m, k, v) == [x \in DOMAIN m \cup {k} |-> IF x = k THEN v ELSE m[x]]

\* Component::new(name)
NewComponent(name) ==
    [name |-> name, input_map |-> EmptyMap, output_map |-> EmptyMap,
     input_ports |-> <<>>, output_ports |-> <<>>]

\* Rc::new(RawPort::<T>::new(name)): a port is one object, told apart from
\* every other by the component and direction it was created for.
RawPort(owner, dir, name, T) == [owner |-> owner, dir |-> dir, name |-> name, type |-> T]

\* Mutant of add_in_port: no check of the name; the map entry is overwritten
\* and the port pushed.
add_in_port_NoCheck(c, name, T) ==
    [err |-> "none",
     val |-> [c EXCEPT !.input_map = Put(@, name, Len(c.input_ports)),
                       !.input_ports = Append(@, RawPort(c.name, "in", name, T))]]

\* Component::add_in_port::<T>(name)
add_in_port(c, name, T) ==
    IF name \in DOMAIN c.input_map
    THEN [err |-> "duplicate port", val |-> c]
    ELSE [err |-> "none",
          val |-> [c EXCEPT !.input_map = Put(@, name, Len(c.input_ports)),
                            !.input_ports = Append(@, RawPort(c.name, "in", name, T))]]

\* Component::add_out_port::<T>(name)
add_out_port(c, name, T) ==
    IF name \in DOMAIN c.output_map
    THEN [err |-> "duplicate port", val |-> c]
    ELSE [err |-> "none",
          val |-> [c EXCEPT !.output_map = Put(@, name, Len(c.output_ports)),
                            !.output_ports = Append(@, RawPort(c.name, "out", name, T))]]

\* Component::get_in_port(port_name); the Vec is indexed from 0
get_in_port(c, name) ==
    IF name \notin DOMAIN c.input_map
    THEN [err |-> "unknown port", val |-> name]
    ELSE [err |-> "none", val |-> c.input_ports[c.input_map[name] + 1]]

\* Component::get_out_port(port_name)
get_out_port(c, name) ==
    IF name \notin DOMAIN c.output_map
    THEN [err |-> "unknown port", val |-> name]
    ELSE [err |-> "none", val |-> c.output_ports[c.output_map[name] + 1]]

\* Coupled::new(name)
NewCoupled(name) ==
    [component |-> NewComponent(name), components |-> EmptyMap,
     eic |-> EmptyMap, ic |-> EmptyMap, eoc |-> EmptyMap]

\* Mutant of add_component: no check of the name; HashMap::insert replaces
\* the child.
add_component_Replace(m, child) ==
    [err |-> "none", val |-> [m EXCEPT !.components = Put(@, child.name, child)]]

\* Coupled::add_component(component)
add_component(m, child) ==
    IF child.name \in DOMAIN m.components
    THEN [err |-> "duplicate component", val |-> m]
    ELSE [err |-> "none", val |-> [m EXCEPT !.components = Put(@, child.name, child)]]

\* Coupled::get_component(component_name)
get_component(m, name) ==
    IF name \notin DOMAIN m.components
    THEN [err |-> "unknown component", val |-> name]
    ELSE [err |-> "none", val |-> m.components[name]]

\* AbstractPort::is_compatible(other): true iff both ports have the same
\* element type.
is_compatible(a, b) == a.type = b.type

\* Mutant of add_coupling: the ports are not checked for compatibility.
add_coupling_NoTypeCheck(couplings, port_from, port_to) ==
    LET entry == IF port_to \in DOMAIN couplings THEN couplings[port_to] ELSE {}
    IN  [err |-> "none",
         val |-> Put(couplings, port_to, entry \cup {port_from}),
         inserted |-> port_from \notin entry]

\* Mutant of add_coupling: HashSet::insert is taken to have inserted.
add_coupling_AlwaysInserted(couplings, port_from, port_to) ==
    IF ~is_compatible(port_from, port_to)
    THEN [err |-> "type mismatch", val |-> couplings, inserted |-> FALSE]
    ELSE LET entry == IF port_to \in DOMAIN couplings THEN couplings[port_to] ELSE {}
         IN  [err |-> "none",
              val |-> Put(couplings, port_to, entry \cup {port_from}),
              inserted |-> TRUE]

\* Coupled::add_coupling(couplings, port_from, port_to): inserted is the
\* result of HashSet::insert, false if the set already held port_from.
add_coupling(couplings, port_from, port_to) ==
    IF ~is_compatible(port_from, port_to)
    THEN [err |-> "type mismatch", val |-> couplings, inserted |-> FALSE]
    ELSE LET entry == IF port_to \in DOMAIN couplings THEN couplings[port_to] ELSE {}
         IN  [err |-> "none",
              val |-> Put(couplings, port_to, entry \cup {port_from}),
              inserted |-> port_from \notin entry]

\* A call that panicked with err, leaving the coupled model as m.
Panic(err, m) == [err |-> err, val |-> m]

Ok(m) == [err |-> "none", val |-> m]

\* Mutant of add_eic: the child is looked up before the parent's port.
add_eic_ComponentFirst(m, port_from_name, component_to_name, port_to_name) ==
    LET component == get_component(m, component_to_name)
        port_from == get_in_port(m.component, port_from_name)
        port_to   == get_in_port(component.val, port_to_name)
        added     == add_coupling(m.eic, port_from.val, port_to.val)
    IN  IF component.err /= "none" THEN Panic(component.err, m)
        ELSE IF port_from.err /= "none" THEN Panic(port_from.err, m)
        ELSE IF port_to.err /= "none" THEN Panic(port_to.err, m)
        ELSE IF added.err /= "none" THEN Panic(added.err, m)
        ELSE IF ~added.inserted
             THEN Panic("duplicate coupling", [m EXCEPT !.eic = added.val])
        ELSE Ok([m EXCEPT !.eic = added.val])

\* Coupled::add_eic(port_from_name, component_to_name, port_to_name)
add_eic(m, port_from_name, component_to_name, port_to_name) ==
    LET port_from == get_in_port(m.component, port_from_name)
        component == get_component(m, component_to_name)
        port_to   == get_in_port(component.val, port_to_name)
        added     == add_coupling(m.eic, port_from.val, port_to.val)
    IN  IF port_from.err /= "none" THEN Panic(port_from.err, m)
        ELSE IF component.err /= "none" THEN Panic(component.err, m)
        ELSE IF port_to.err /= "none" THEN Panic(port_to.err, m)
        ELSE IF added.err /= "none" THEN Panic(added.err, m)
        ELSE IF ~added.inserted
             THEN Panic("duplicate coupling", [m EXCEPT !.eic = added.val])
        ELSE Ok([m EXCEPT !.eic = added.val])

\* Coupled::add_ic(component_from_name, port_from_name, component_to_name,
\* port_to_name)
add_ic(m, component_from_name, port_from_name, component_to_name, port_to_name) ==
    LET component_from == get_component(m, component_from_name)
        port_from      == get_out_port(component_from.val, port_from_name)
        component_to   == get_component(m, component_to_name)
        port_to        == get_in_port(component_to.val, port_to_name)
        added          == add_coupling(m.ic, port_from.val, port_to.val)
    IN  IF component_from.err /= "none" THEN Panic(component_from.err, m)
        ELSE IF port_from.err /= "none" THEN Panic(port_from.err, m)
        ELSE IF component_to.err /= "none" THEN Panic(component_to.err, m)
        ELSE IF port_to.err /= "none" THEN Panic(port_to.err, m)
        ELSE IF added.err /= "none" THEN Panic(added.err, m)
        ELSE IF ~added.inserted
             THEN Panic("duplicate coupling", [m EXCEPT !.ic = added.val])
        ELSE Ok([m EXCEPT !.ic = added.val])

\* Coupled::add_eoc(component_from_name, port_from_name, port_to_name)
add_eoc(m, component_from_name, port_from_name, port_to_name) ==
    LET component == get_component(m, component_from_name)
        port_from == get_out_port(component.val, port_from_name)
        port_to   == get_out_port(m.component, port_to_name)
        added     == add_coupling(m.eoc, port_from.val, port_to.val)
    IN  IF component.err /= "none" THEN Panic(component.err, m)
        ELSE IF port_from.err /= "none" THEN Panic(port_from.err, m)
        ELSE IF port_to.err /= "none" THEN Panic(port_to.err, m)
        ELSE IF added.err /= "none" THEN Panic(added.err, m)
        ELSE IF ~added.inserted
             THEN Panic("duplicate coupling", [m EXCEPT !.eoc = added.val])
        ELSE Ok([m EXCEPT !.eoc = added.val])

\* The components a test builds before it adds them to the coupled model:
\* Component::new and one add_in_port and add_out_port, or none.  Two of
\* them may bear the same name.
WithIn(c, T) == IF T = "none" THEN c ELSE add_in_port(c, "p", T).val

WithOut(c, T) == IF T = "none" THEN c ELSE add_out_port(c, "p", T).val

ChildComponents ==
    {WithOut(WithIn(NewComponent("c"), "i32"), "i32"),
     WithOut(WithIn(NewComponent("c"), "i64"), "none"),
     WithOut(WithIn(NewComponent("d"), "i32"), "i64")}

\* No DEVStone model is assembled.
NoStone == [phase |-> "none"]

\* The construction before its first call: Coupled::new("top_coupled").
NewBuild == [top |-> NewCoupled("top_coupled"), op |-> "new", err |-> "none"]

(* ------------------------------ DEVStone ------------------------------- *)
(* HI::new / HI::_create_test of devstone/hi.rs and HO::new / HO::create   *)
(* of devstone/ho.rs.  They assemble a Coupled that keeps its children and *)
(* its couplings in lists (coupled.eic_vec, coupled.ic_vec,                *)
(* coupled.eoc_vec), in the order of the calls.                            *)

\* Largest width and depth a DEVStone model is built with.
MaxWidth == 6

MaxDepth == 6

\* The widths and depths a DEVStone model is built with.
StoneSizes == (1..MaxWidth) \X (1..MaxDepth)

\* format!("atomic_{}", i), format!("coupled_{}", depth): a name is the
\* text and the number printed into it.
Name(text, i) == <<text, i>>

\* The "self" a coupling of a coupled model names for the model's own port.
Own == Name("self", 0)

\* TestProbe::default()
NewProbe ==
    [n_atomics |-> 0, n_eics |-> 0, n_ics |-> 0, n_eocs |-> 0,
     n_internals |-> 0, n_externals |-> 0, n_events |-> 0]

\* A model of the tree: kind is "coupled", "atomic" (DEVStoneAtomic) or
\* "seeder" (DEVStoneSeeder).
StoneModel(kind, name, input, output) ==
    [kind |-> kind, name |-> name, input |-> input, output |-> output,
     components |-> <<>>, eic_vec |-> <<>>, ic_vec |-> <<>>, eoc_vec |-> <<>>]

\* Coupled::new(name)
StoneCoupled(name) == StoneModel("coupled", name, <<>>, <<>>)

\* DEVStoneAtomic::new(name, probe): ports "input" and "output"
DEVStoneAtomic(name) == StoneModel("atomic", name, <<"input">>, <<"output">>)

\* DEVStoneSeeder::new(name): port "output"
DEVStoneSeeder(name) == StoneModel("seeder", name, <<>>, <<"output">>)

\* coupled.add_in_port::<usize>(name), coupled.add_out_port::<usize>(name)
stone_add_in_port(c, name) == [c EXCEPT !.input = Append(@, name)]

stone_add_out_port(c, name) == [c EXCEPT !.output = Append(@, name)]

\* coupled.add_component(Box::new(child))
stone_add_component(c, child) == [c EXCEPT !.components = Append(@, child)]

\* A coupling: the component and port it reads, the component and port it
\* writes.
Coupling(cf, pf, ct, pt) == [cf |-> cf, pf |-> pf, ct |-> ct, pt |-> pt]

\* coupled.add_eic(port_from, component_to, port_to)
stone_add_eic(c, pf, ct, pt) == [c EXCEPT !.eic_vec = Append(@, Coupling(Own, pf, ct, pt))]

\* coupled.add_ic(component_from, port_from, component_to, port_to)
stone_add_ic(c, cf, pf, ct, pt) == [c EXCEPT !.ic_vec = Append(@, Coupling(cf, pf, ct, pt))]

\* coupled.add_eoc(component_from, port_from, port_to)
stone_add_eoc(c, cf, pf, pt) == [c EXCEPT !.eoc_vec = Append(@, Coupling(cf, pf, Own, pt))]

\* HI::new, "Before exiting, we update the probe if required"
Probed(coupled, probe) ==
    [probe EXCEPT !.n_eics = @ + Len(coupled.eic_vec),
                  !.n_ics = @ + Len(coupled.ic_vec),
                  !.n_eocs = @ + Len(coupled.eoc_vec)]

\* DEVStoneAtomic::new counts the atomic in the probe.
Counted(probe) == [probe EXCEPT !.n_atomics = @ + 1]

\* Mutant of HI_atomics: every atomic, the first included, is coupled to
\* atomic i - 1.
RECURSIVE HI_atomics_NoFirst(_, _, _, _)
HI_atomics_NoFirst(coupled, probe, i, width) ==
    IF i >= width THEN [coupled |-> coupled, probe |-> probe]
    ELSE LET atomic_name == Name("atomic", i)
             c1 == stone_add_component(coupled, DEVStoneAtomic(atomic_name))
             c2 == stone_add_eic(c1, "input", atomic_name, "input")
             c3 == stone_add_ic(c2, Name("atomic", i - 1), "output", atomic_name, "input")
         IN  HI_atomics_NoFirst(c3, Counted(probe), i + 1, width)

\* HI::new, the loop "for i in 1..width" from iteration i on
RECURSIVE HI_atomics(_, _, _, _)
HI_atomics(coupled, probe, i, width) ==
    IF i >= width THEN [coupled |-> coupled, probe |-> probe]
    ELSE LET atomic_name == Name("atomic", i)
             c1 == stone_add_component(coupled, DEVStoneAtomic(atomic_name))
             c2 == stone_add_eic(c1, "input", atomic_name, "input")
             c3 == IF i > 1
                   THEN stone_add_ic(c2, Name("atomic", i - 1), "output",
                                     atomic_name, "input")
                   ELSE c2
         IN  HI_atomics(c3, Counted(probe), i + 1, width)

\* HI::new(width, depth, Some(probe)), given what the recursive call
\* Self::new(width, depth - 1, probe.clone()) returned and the probe as it
\* is when the body starts: the coupled model and the probe as the call
\* leaves them
HI_new(width, depth, subcoupled, probe) ==
    LET name == Name("coupled", depth)
        c0 == stone_add_out_port(stone_add_in_port(StoneCoupled(name), "input"), "output")
    IN  IF depth = 1
        THEN LET c1 == stone_add_component(c0, DEVStoneAtomic(Name("inner_atomic", 0)))
                 c2 == stone_add_eic(c1, "input", Name("inner_atomic", 0), "input")
                 c3 == stone_add_eoc(c2, Name("inner_atomic", 0), "output", "output")
             IN  [coupled |-> c3, probe |-> Probed(c3, Counted(probe))]
        ELSE LET subcoupled_name == subcoupled.name
                 c1 == stone_add_component(c0, subcoupled)
                 c2 == stone_add_eic(c1, "input", subcoupled_name, "input")
                 c3 == stone_add_eoc(c2, subcoupled_name, "output", "output")
                 r  == HI_atomics(c3, probe, 1, width)
             IN  [coupled |-> r.coupled, probe |-> Probed(r.coupled, r.probe)]

\* HI::_create_test(width, depth, probe), given what Self::new returned
HI_create_test(hi) ==
    LET c1 == stone_add_component(StoneCoupled(Name("HI", 0)), DEVStoneSeeder(Name("seeder", 0)))
        c2 == stone_add_component(c1, hi)
    IN  stone_add_ic(c2, Name("seeder", 0), "output", hi.name, "input")

\* Mutant of HO_atomics: the atomics are not coupled to "output_2".
RECURSIVE HO_atomics_NoEoc(_, _, _, _)
HO_atomics_NoEoc(coupled, probe, i, width) ==
    IF i >= width THEN [coupled |-> coupled, probe |-> probe]
    ELSE LET atomic_name == Name("atomic", i)
             c1 == stone_add_component(coupled, DEVStoneAtomic(atomic_name))
             c2 == stone_add_eic(c1, "input_2", atomic_name, "input")
             c3 == IF i > 1
                   THEN stone_add_ic(c2, Name("atomic", i - 1), "output",
                                     atomic_name, "input")
                   ELSE c2
         IN  HO_atomics_NoEoc(c3, Counted(probe), i + 1, width)

\* HO::new, the loop "for i in 1..width" from iteration i on
RECURSIVE HO_atomics(_, _, _, _)
HO_atomics(coupled, probe, i, width) ==
    IF i >= width THEN [coupled |-> coupled, probe |-> probe]
    ELSE LET atomic_name == Name("atomic", i)
             c1 == stone_add_component(coupled, DEVStoneAtomic(atomic_name))
             c2 == stone_add_eic(c1, "input_2", atomic_name, "input")
             c3 == IF i > 1
                   THEN stone_add_ic(c2, Name("atomic", i - 1), "output",
                                     atomic_name, "input")
                   ELSE c2
             c4 == stone_add_eoc(c3, atomic_name, "output", "output_2")
         IN  HO_atomics(c4, Counted(probe), i + 1, width)

\* HO::new(width, depth, int_delay, ext_delay, probe), given what the
\* recursive call returned; the delays only spend processor time
HO_new(width, depth, subcoupled, probe) ==
    LET name == Name("coupled", depth)
        c0 == stone_add_out_port(
                  stone_add_out_port(
                      stone_add_in_port(
                          stone_add_in_port(StoneCoupled(name), "input_1"),
                          "input_2"),
                      "output_1"),
                  "output_2")
    IN  IF depth = 1
        THEN LET c1 == stone_add_component(c0, DEVStoneAtomic(Name("inner_atomic", 0)))
                 c2 == stone_add_eic(c1, "input_1", Name("inner_atomic", 0), "input")
                 c3 == stone_add_eoc(c2, Name("inner_atomic", 0), "output", "output_1")
             IN  [coupled |-> c3, probe |-> Probed(c3, Counted(probe))]
        ELSE LET subcoupled_name == subcoupled.name
                 c1 == stone_add_component(c0, subcoupled)
                 c2 == stone_add_eic(c1, "input_1", subcoupled_name, "input_1")
                 c3 == stone_add_eic(c2, "input_1", subcoupled_name, "input_2")
                 c4 == stone_add_eoc(c3, subcoupled_name, "output_1", "output_1")
                 r  == HO_atomics(c4, probe, 1, width)
             IN  [coupled |-> r.coupled, probe |-> Probed(r.coupled, r.probe)]

\* HO::create(width, depth, 0, 0, probe), given what Self::new returned
HO_create(ho) ==
    LET c1 == stone_add_component(StoneCoupled(Name("HO", 0)), DEVStoneSeeder(Name("seeder", 0)))
        c2 == stone_add_component(c1, ho)
        c3 == stone_add_ic(c2, Name("seeder", 0), "output", ho.name, "input_1")
    IN  stone_add_ic(c3, Name("seeder", 0), "output", ho.name, "input_2")

(* ------------------------------ state ---------------------------------- *)

VARIABLES
    impl,      \* which coupled simulator runs: "simulation" or "modeling"
    order,     \* order[n]: the order in which coupled n iterates its children
    mode,      \* "none", "time" (simulate_time) or "steps" (simulate_steps)
    t_end,     \* argument of simulate_time
    n_steps,   \* remaining steps of simulate_steps
    n_arg,     \* the argument simulate_steps was called with
    cycles,    \* number of cycles simulate_steps has begun
    pc,        \* position of the root coordinator
    t,         \* the coordinator's local t_next: the time of the current cycle
    stack,     \* call stack of coupled frames
    t_last,    \* t_last[n]: Component::t_last
    t_next,    \* t_next[n]: Component::t_next
    sigma,     \* sigma[a]: the user state of atomic a; ta() returns it
    ports,     \* ports[p]: the values buffered in port p
    started,   \* started[a]: number of calls of a's start hook
    stopped,   \* stopped[a]: number of calls of a's stop hook
    log,       \* what the kernel did to the atomics since the current cycle
               \* began (since simulate_* began, before the first cycle)
    user,      \* the user's atomic model: any behaviour, or a deterministic one
    hist,      \* for a deterministic user model: which run this is, the
               \* deltas each atomic has executed in it, the result of the
               \* first run
    build,     \* the coupled model under construction (Coupled::new, add_*)
    stone,     \* the DEVStone model being assembled and run
    par,       \* simulation.rs built with the par_* features: the children
               \* of a coupled model, and the groups of couplings, run as
               \* parallel tasks
    pool,      \* the call stacks of the parallel tasks that are not the one
               \* executing (stack is the one executing)
    obs,       \* what a deterministic user model and the coordinator saw
               \* in this run and in the first one, when it is recorded
    unit       \* one atomic model driven through its simulator hook by hook,
               \* with the calls its user code received

vars == <<unit, shape, par, pool, obs, impl, order, mode, t_end, n_steps, n_arg, cycles, pc, t, stack, t_last, t_next,
          sigma, ports, started, stopped, log, user, hist, build, stone>>

\* The variables of the coordinator and of the models it runs.
kernel_but_unit ==
    <<shape, par, pool, obs, impl, order, mode, t_end, n_steps, n_arg, cycles, pc, t, stack,
      t_last, t_next, sigma, ports, started, stopped, log, user, hist>>

\* All orderings of the elements of sequence s.
Perms(s) ==
    {q \in [1..Len(s) -> Range(s)] : \A x \in Range(s) : \E i \in 1..Len(s) : q[i] = x}

\* The orders in which a coupled model may iterate its children: a Vec
\* iterates in insertion order; a HashMap in an arbitrary order, fixed for
\* the life of the map.
Orders(n) ==
    IF impl = "simulation" THEN {Components(n)} ELSE Perms(Components(n))

\* The kinds of delta an atomic executes.
Deltas == {"conf", "ext", "int"}

\* The user's atomic models.  When det is FALSE lambda and the deltas may do
\* anything.  When det is TRUE they are functions: the atomics start in the
\* states init, lambda puts a value on the output, delta_int leaves state
\* int and delta_ext leaves state ext (delta_conf is the default, delta_int
\* and then delta_ext).
FreeUser ==
    [det |-> FALSE, init |-> [a \in Atomics |-> Inf], int |-> Inf, ext |-> Inf]

UserModels ==
    [det : {TRUE}, init : [Atomics -> TaSet], int : {1, Inf}, ext : {1, Inf}]

\* What a run leaves behind: the atomics' states and the clocks, and the
\* number of deltas of each kind each atomic executed.
Result(counts) ==
    [sigma |-> sigma, t_last |-> t_last, t_next |-> t_next, counts |-> counts]

ZeroCounts == [a \in Atomics |-> [k \in Deltas |-> 0]]

\* No atomic is driven on its own.
NoUnit == [pc |-> "none"]

\* Nothing is recorded.
NoObs ==
    [on |-> FALSE,
     view |-> [a \in Atomics |-> <<>>], snaps |-> <<>>,
     first |-> [view |-> [a \in Atomics |-> <<>>], snaps |-> <<>>]]

NoHist ==
    [run |-> 1, counts |-> ZeroCounts,
     first |-> [sigma |-> [a \in Atomics |-> Inf],
                t_last |-> [n \in Nodes |-> 0],
                t_next |-> [n \in Nodes |-> Inf],
                counts |-> ZeroCounts]]

\* The state after construction of the model and of the coordinator, but for
\* the user's part.
InitKernel ==
    /\ mode = "none"
    /\ t_end = 0
    /\ n_steps = 0
    /\ n_arg = 0
    /\ cycles = 0
    /\ pc = "idle"
    /\ t = 0
    /\ stack = <<>>
    \* Component::new: t_last = 0, t_next = INFINITY, no values in any port
    /\ t_last = [n \in Nodes |-> 0]
    /\ t_next = [n \in Nodes |-> Inf]
    /\ ports = [p \in AllPorts |-> <<>>]
    /\ started = [a \in Atomics |-> 0]
    /\ stopped = [a \in Atomics |-> 0]
    /\ log = <<>>
    /\ hist = NoHist
    /\ build = NewBuild
    /\ stone = NoStone
    /\ par = FALSE
    /\ pool = {}

Init ==
    /\ obs = NoObs
    /\ unit = NoUnit
    /\ shape = "tree"
    /\ impl \in {"simulation", "modeling"}
    /\ order \in [Coupleds -> UNION {Orders(n) : n \in Coupleds}]
    /\ \A n \in Coupleds : order[n] \in Orders(n)
    /\ sigma \in [Atomics -> TaSet]
    /\ user = FreeUser
    /\ InitKernel

(* --------------------------- the call stack ---------------------------- *)

\* Mutant of StageSeq: Coupled::stop closes its own clock and forgets its
\* children.
StageSeq_StopSkipsChildren(op) ==
    CASE op = "start"       -> <<"children", "set">>
      [] op = "stop"        -> <<"set">>
      [] op = "collection"  -> IF impl = "simulation"
                                 THEN <<"children", "eoc">>
                                 ELSE <<"children", "ic", "eoc">>
      [] op = "transition"  -> IF impl = "simulation"
                                 THEN <<"xic", "children_clear", "set">>
                                 ELSE <<"eic", "children", "set">>
      [] op = "clear_ports" -> <<"children", "self">>

\* Mutant of StageSeq: Coupled::collection propagates its couplings before it
\* collects its children.
StageSeq_CouplingsFirst(op) ==
    CASE op = "start"       -> <<"children", "set">>
      [] op = "stop"        -> <<"children", "set">>
      [] op = "collection"  -> IF impl = "simulation"
                                 THEN <<"eoc", "children">>
                                 ELSE <<"ic", "eoc", "children">>
      [] op = "transition"  -> IF impl = "simulation"
                                 THEN <<"xic", "children_clear", "set">>
                                 ELSE <<"eic", "children", "set">>
      [] op = "clear_ports" -> <<"children", "self">>

\* Mutant of StageSeq: Coupled::transition runs the transitions of its
\* children before it propagates the couplings into them.
StageSeq_ChildrenBeforeInputs(op) ==
    CASE op = "start"       -> <<"children", "set">>
      [] op = "stop"        -> <<"children", "set">>
      [] op = "collection"  -> IF impl = "simulation"
                                 THEN <<"children", "eoc">>
                                 ELSE <<"children", "ic", "eoc">>
      [] op = "transition"  -> IF impl = "simulation"
                                 THEN <<"children_clear", "xic", "set">>
                                 ELSE <<"children", "eic", "set">>
      [] op = "clear_ports" -> <<"children", "self">>

\* The stages of the body of a coupled operation, in program order.
\*   children       : one call per child
\*   children_clear : per child, the call and then the child's clear_ports
\*   xic/eic/ic/eoc : one propagate per coupling of that table
\*   set            : the final set_sim_t
\*   self           : the coupled model's own component.clear_ports()
\* With the feature par_xic, simulation.rs propagates the groups of EICs and
\* then the groups of ICs.
StageSeq(op) ==
    CASE op = "start"       -> <<"children", "set">>
      [] op = "stop"        -> <<"children", "set">>
      [] op = "collection"  -> IF impl = "simulation"
                                 THEN <<"children", "eoc">>
                                 ELSE <<"children", "ic", "eoc">>
      [] op = "transition"  -> IF impl = "simulation"
                                 THEN IF par
                                        THEN <<"eic", "ic", "children_clear", "set">>
                                        ELSE <<"xic", "children_clear", "set">>
                                 ELSE <<"eic", "children", "set">>
      [] op = "clear_ports" -> <<"children", "self">>

\* Mutant of Table: the table keeps one source for each destination, the one
\* declared last.
Table_OneSourcePerDestination(n, stage) ==
    LET tb == CASE stage = "xic" -> XIC(n)
                [] stage = "eic" -> EIC(n)
                [] stage = "ic"  -> IC(n)
                [] stage = "eoc" -> EOC(n)
        Last(c) == \A j \in 1..Len(tb) :
                       tb[j][2] = c[2] => j <= (CHOOSE i \in 1..Len(tb) : tb[i] = c)
    IN  SelectSeq(tb, Last)

\* The coupling table a stage of a coupled operation iterates.
Table(n, stage) ==
    CASE stage = "xic" -> XIC(n)
      [] stage = "eic" -> EIC(n)
      [] stage = "ic"  -> IC(n)
      [] stage = "eoc" -> EOC(n)

StageLen(n, stage) ==
    CASE stage = "children"       -> Len(order[n])
      [] stage = "children_clear" -> 2 * Len(order[n])
      [] stage \in {"set", "self"} -> 1
      [] OTHER                    -> Len(Table(n, stage))

\* A frame is [node, op, st, idx, done]: coupled model node executes op and
\* is at step idx of stage st; done is the set of couplings of the stage's
\* table already propagated.
\* The first position at or after (st, idx) that has something to execute;
\* st = Len(StageSeq(op)) + 1 when the body is finished.
RECURSIVE Norm(_, _, _, _, _)
Norm(n, op, st, idx, done) ==
    IF st > Len(StageSeq(op))
      THEN [node |-> n, op |-> op, st |-> st, idx |-> 1, done |-> {}]
      ELSE IF idx > StageLen(n, StageSeq(op)[st])
             THEN Norm(n, op, st + 1, 1, {})
             ELSE [node |-> n, op |-> op, st |-> st, idx |-> idx, done |-> done]

Finished(f) == f.st > Len(StageSeq(f.op))

\* The top frame of the stack is the task of one child of a coupled model
\* whose children run in parallel: it lies on the frame of the coupled model
\* itself, which waits for its children.
TaskTop(stk) == Len(stk) > 1 /\ stk[Len(stk) - 1].node = stk[Len(stk)].node

\* Entering the body of operation op of coupled model n.
Enter(stk, n, op) ==
    LET f == Norm(n, op, 1, 1, {})
    IN  IF Finished(f) THEN stk ELSE Append(stk, f)

\* The top frame moves past the step it just executed; it returns when its
\* body is finished.
\* The top frame of a parallel task is the part of the children stage that
\* belongs to one child: the call and, in transition, the child's
\* clear_ports; the task is over when that part is.
StepTop(stk) ==
    LET f == stk[Len(stk)]
        g == Norm(f.node, f.op, f.st, f.idx + 1, f.done)
        over == IF TaskTop(stk)
                  THEN StageSeq(f.op)[f.st] = "children" \/ f.idx % 2 = 0
                  ELSE Finished(g)
    IN  IF over THEN SubSeq(stk, 1, Len(stk) - 1)
                ELSE [stk EXCEPT ![Len(stk)] = g]

Top == stack[Len(stack)]

Stage(f) == StageSeq(f.op)[f.st]

\* The frame is about to call its operation on a child.
\* With parallel children, the calls are made by the tasks.
CallStage(f) ==
    /\ par => TaskTop(stack)
    /\ \/ Stage(f) = "children"
       \/ Stage(f) = "children_clear" /\ f.idx % 2 = 1

\* The child the frame is at.
Child(f) ==
    IF Stage(f) = "children" THEN order[f.node][f.idx]
                             ELSE order[f.node][(f.idx + 1) \div 2]

(* ------------------------- component helpers --------------------------- *)

\* Component::is_input_empty
InputEmpty(n) == \A p \in Range(InPorts(n)) : ports[p] = <<>>

\* Mutant of Cleared: clear_ports of a component empties the ports of every
\* component.
Cleared_AllPorts(n) == [p \in AllPorts |-> <<>>]

\* Mutant of Cleared: clear_ports forgets component.clear_output().
Cleared_InputOnly(n) ==
    [p \in AllPorts |-> IF p \in Range(InPorts(n)) THEN <<>> ELSE ports[p]]

\* Component::clear_input; Component::clear_output (Simulator::clear_ports)
Cleared(n) == [p \in AllPorts |-> IF p \in PortsOf(n) THEN <<>> ELSE ports[p]]

\* propagate: the values buffered in the source are appended to the destination
\* and stay in the source.
Propagated(from, to) == [ports EXCEPT ![to] = @ \o ports[from]]

Min(S) == CHOOSE x \in S : \A y \in S : x <= y

\* Mutant of MinTNext: the fold keeps the last child's t_next, not the least.
MinTNext_LastChild(n) ==
    IF Components(n) = <<>> THEN Inf
    ELSE t_next[Components(n)[Len(Components(n))]]

\* Mutant of MinTNext: the fold keeps the first child's t_next, not the least.
MinTNext_FirstChild(n) ==
    IF Components(n) = <<>> THEN Inf ELSE t_next[Components(n)[1]]

\* Mutant of MinTNext: the fold keeps the t_next of the child it visited
\* last, not the least.
MinTNext_LastVisited(n) ==
    IF Components(n) = <<>> THEN Inf ELSE t_next[order[n][Len(order[n])]]

\* The minimum t_next of the children of n, +inf when there are none.
MinTNext(n) ==
    IF Components(n) = <<>> THEN Inf
    ELSE Min({t_next[c] : c \in Range(Components(n))})

\* ta() of an atomic whose user state is s.
Ta(s) == s

\* The user states a delta may leave behind at time tt (finite times are capped).
UserStates(tt) == {s \in TaSet : s = Inf \/ tt + s <= MaxTime}

\* The states a delta of the given kind may leave behind at time tt.
UserChoices(kind, tt) ==
    IF user.det
      THEN LET s == IF kind = "int" THEN user.int ELSE user.ext
           IN  {IF s \in UserStates(tt) THEN s ELSE Inf}
      ELSE UserStates(tt)

\* Whether lambda may put a value on the output port.
Emits == IF user.det THEN {TRUE} ELSE BOOLEAN

(* --------------------------- atomic simulator -------------------------- *)

\* Mutant of LambdaGuard: collection calls lambda without looking at t_next.
LambdaGuard_Always(a, tt) == TRUE

\* The guard of <T as Simulator>::collection.
LambdaGuard(a, tt) == tt >= t_next[a]

\* Mutant of TransitionKind: an imminent atomic always takes delta_int, input
\* or not.
TransitionKind_NoConf(a, tt) ==
    IF tt = t_next[a] THEN "int"
    ELSE IF ~InputEmpty(a) THEN "ext" ELSE "none"

\* Mutant of TransitionKind: an atomic without input always takes delta_int,
\* imminent or not.
TransitionKind_IntWhenIdle(a, tt) ==
    IF ~InputEmpty(a)
      THEN IF tt = t_next[a] THEN "conf" ELSE "ext"
      ELSE "int"

\* Mutant of TransitionKind: an atomic that is not imminent always takes
\* delta_ext, input or not.
TransitionKind_ExtWhenNotImminent(a, tt) ==
    IF tt = t_next[a]
      THEN IF ~InputEmpty(a) THEN "conf" ELSE "int"
      ELSE "ext"

\* The branch <T as Simulator>::transition takes at time tt:
\* "conf", "ext", "int", or "none" (the early return).
TransitionKind(a, tt) ==
    IF ~InputEmpty(a)
      THEN IF tt = t_next[a] THEN "conf" ELSE "ext"
      ELSE IF tt = t_next[a] THEN "int" ELSE "none"

\* Mutant of Elapsed: the elapsed time is taken from time 0, not from t_last.
Elapsed_FromZero(a, tt) == tt

\* The elapsed time handed to delta_ext.
Elapsed(a, tt) == tt - t_last[a]

\* Mutant of ClockAfter: t_next is set to ta(), not to t + ta().
ClockAfter_TaOnly(tt, s) == [t_last |-> tt, t_next |-> Ta(s)]

\* The clock an atomic gets after a delta at time tt that left user state s.
ClockAfter(tt, s) == [t_last |-> tt, t_next |-> Plus(tt, Ta(s))]

\* A log entry: the kernel, at time tt, did `kind` to atomic a, which is
\* "start", "stop", "lambda", "conf", "ext" (with elapsed time e), "int", or
\* "none" (transition returned early), with what the atomic's input ports
\* and clock were at that moment.
Event(kind, a, tt, e) ==
    [kind |-> kind, a |-> a, t |-> tt, e |-> e,
     in_empty |-> InputEmpty(a), tn |-> t_next[a], tl |-> t_last[a]]

\* The parent's frame is at the call of operation op on atomic a.
AtAtomic(a, op) ==
    /\ stack /= <<>>
    /\ Top.op = op
    /\ CallStage(Top)
    /\ Child(Top) = a

\* What is recorded of a delta of atomic a: its kind, the time, the elapsed
\* time, the values on the input ports and the state it left.
Seen(a, kind, e, s) ==
    IF obs.on
      THEN [obs EXCEPT !.view[a] =
               Append(@, [kind |-> kind, t |-> t, e |-> e, s |-> s,
                          input |-> [p \in Range(InPorts(a)) |-> ports[p]]])]
      ELSE obs

\* What is recorded when a phase of the root returns: the ports, the clocks
\* and the states of the atomics.
Snapped ==
    IF obs.on
      THEN [obs EXCEPT !.snaps =
               Append(@, [ports |-> ports, t_last |-> t_last, t_next |-> t_next,
                          sigma |-> sigma])]
      ELSE obs

\* Mutant of AtomicStart: start runs the hook and sets t_last but leaves
\* t_next as Component::new set it.
AtomicStart_NoSchedule(a) ==
    /\ AtAtomic(a, "start")
    /\ started' = [started EXCEPT ![a] = @ + 1]
    /\ t_last' = [t_last EXCEPT ![a] = 0]
    /\ log' = Append(log, Event("start", a, 0, 0))
    /\ stack' = StepTop(stack)
    /\ UNCHANGED <<build, stone, unit, shape, par, pool, obs, impl, order, user, hist, n_arg, cycles, mode, t_end, n_steps, pc, t, t_next, sigma,
                   ports, stopped>>

\* <T as Simulator>::start: the start hook, then t_next := t_start + ta().
AtomicStart(a) ==
    /\ AtAtomic(a, "start")
    /\ started' = [started EXCEPT ![a] = @ + 1]
    /\ t_last' = [t_last EXCEPT ![a] = 0]
    /\ t_next' = [t_next EXCEPT ![a] = Plus(0, Ta(sigma[a]))]
    /\ log' = Append(log, Event("start", a, 0, 0))
    /\ stack' = StepTop(stack)
    /\ UNCHANGED <<build, stone, unit, shape, par, pool, obs, impl, order, user, hist, n_arg, cycles, mode, t_end, n_steps, pc, t, sigma, ports,
                   stopped>>

\* <T as Simulator>::stop: the clock is closed, then the stop hook runs.
AtomicStop(a) ==
    /\ AtAtomic(a, "stop")
    /\ t_last' = [t_last EXCEPT ![a] = t]
    /\ t_next' = [t_next EXCEPT ![a] = Inf]
    /\ stopped' = [stopped EXCEPT ![a] = @ + 1]
    /\ log' = Append(log, Event("stop", a, t, 0))
    /\ stack' = StepTop(stack)
    /\ UNCHANGED <<build, stone, unit, shape, par, pool, obs, impl, order, user, hist, n_arg, cycles, mode, t_end, n_steps, pc, t, sigma, ports,
                   started>>

\* <T as Simulator>::collection: lambda when t >= t_next.  The user's lambda
\* may or may not put a value (its own name) on its output port.
AtomicCollection(a) ==
    /\ AtAtomic(a, "collection")
    /\ IF LambdaGuard(a, t)
         THEN /\ log' = Append(log, Event("lambda", a, t, 0))
              /\ \E emit \in Emits :
                    ports' = IF emit
                               THEN [ports EXCEPT ![OutPorts(a)[1]] = Append(@, a)]
                               ELSE ports
         ELSE UNCHANGED <<log, ports>>
    /\ stack' = StepTop(stack)
    /\ UNCHANGED <<build, stone, unit, shape, par, pool, obs, impl, order, user, hist, n_arg, cycles, mode, t_end, n_steps, pc, t, t_last, t_next,
                   sigma, started, stopped>>

\* <T as Simulator>::transition: delta_conf, delta_ext(e) or delta_int, then
\* ta() on the new state and set_sim_t(t, t + ta); or the early return.
\* The user's delta leaves any state of UserStates behind.
AtomicTransition(a) ==
    /\ AtAtomic(a, "transition")
    /\ LET kind == TransitionKind(a, t)
       IN  IF kind = "none"
             THEN /\ log' = Append(log, Event("none", a, t, 0))
                  /\ UNCHANGED <<sigma, t_last, t_next, hist, obs>>
             ELSE \E s \in UserChoices(kind, t) :
                    /\ sigma' = [sigma EXCEPT ![a] = s]
                    /\ obs' = Seen(a, kind, IF kind = "ext" THEN Elapsed(a, t) ELSE 0, s)
                    /\ hist' = IF user.det
                                 THEN [hist EXCEPT !.counts[a][kind] = @ + 1]
                                 ELSE hist
                    /\ log' = Append(log, Event(kind, a, t,
                                   IF kind = "ext" THEN Elapsed(a, t) ELSE 0))
                    /\ t_last' = [t_last EXCEPT ![a] = ClockAfter(t, s).t_last]
                    /\ t_next' = [t_next EXCEPT ![a] = ClockAfter(t, s).t_next]
    /\ stack' = StepTop(stack)
    /\ UNCHANGED <<build, stone, unit, shape, par, pool, impl, order, user, n_arg, cycles, mode, t_end, n_steps, pc, t,
                   ports, started, stopped>>

(* --------------------------- coupled simulator ------------------------- *)

\* Mutant of Call: Coupled::collection runs only when t > t_next.
Call_StrictGuard(stk, c, op) ==
    IF op = "collection" /\ ~(t > t_next[c]) THEN stk ELSE Enter(stk, c, op)

\* Mutant of Call: Coupled::collection runs its body whatever t_next is.
Call_NoGuard(stk, c, op) == Enter(stk, c, op)

\* Calling operation op on coupled model c: Coupled::collection returns at
\* once unless t >= t_next; every other operation runs its body.
Call(stk, c, op) ==
    IF op = "collection" /\ ~(t >= t_next[c]) THEN stk ELSE Enter(stk, c, op)

\* A coupled model calls the operation it is executing on a coupled child.
CoupledCall ==
    /\ stack /= <<>>
    /\ CallStage(Top)
    /\ Child(Top) \in Coupleds
    /\ stack' = Call(StepTop(stack), Child(Top), Top.op)
    /\ UNCHANGED <<build, stone, unit, shape, par, pool, obs, impl, order, user, hist, n_arg, cycles, mode, t_end, n_steps, pc, t, t_last, t_next,
                   sigma, ports, started, stopped, log>>

\* The group of parallel propagation coupling i of a table belongs to
\* (build_par_xics, build_par_eocs): the couplings into one destination
\* port are one group.
ParGroup(table, i) == table[i][2]

\* Mutant of NextCouplings: with the par_* features every coupling is a
\* task of its own.
NextCouplings_EachCouplingATask(f) ==
    LET table == Table(f.node, Stage(f))
        left  == (1..Len(table)) \ f.done
        open  == {i \in left : \E j \in f.done : table[j][2] = table[i][2]}
    IN  IF impl = "simulation" THEN (IF par THEN left ELSE {f.idx})
        ELSE IF open /= {} THEN open ELSE left

\* The couplings frame f may propagate next.  simulation.rs iterates a Vec:
\* the next one in insertion order.  modeling/coupled.rs iterates a
\* HashMap from destination to a HashSet of sources: the destinations in any
\* order and, within a destination, the sources in any order.
\* With the features par_xic and par_eoc, simulation.rs runs the groups of
\* the table in parallel and the couplings of a group one after the other:
\* the next coupling of any group.
NextCouplings(f) ==
    LET table == Table(f.node, Stage(f))
        left  == (1..Len(table)) \ f.done
        open  == {i \in left : \E j \in f.done : table[j][2] = table[i][2]}
        heads == {i \in left : \A j \in left : ParGroup(table, j) = ParGroup(table, i) => i <= j}
    IN  IF impl = "simulation" THEN (IF par THEN heads ELSE {f.idx})
        ELSE IF open /= {} THEN open ELSE left

\* One coupling of the table the frame is at is propagated.
PropagateCoupling ==
    /\ stack /= <<>>
    /\ Stage(Top) \in {"xic", "eic", "ic", "eoc"}
    /\ \E i \in NextCouplings(Top) :
          LET c == Table(Top.node, Stage(Top))[i]
          IN  /\ ports' = Propagated(c[1], c[2])
              /\ stack' = StepTop([stack EXCEPT ![Len(stack)].done = @ \cup {i}])
    /\ UNCHANGED <<build, stone, unit, shape, par, pool, obs, impl, order, user, hist, n_arg, cycles, mode, t_end, n_steps, pc, t, t_last, t_next,
                   sigma, started, stopped, log>>

\* simulation.rs, Coupled::transition: c.clear_ports() right after
\* c.transition(t), the default clear_ports of the child's own component.
ClearChildPorts ==
    /\ stack /= <<>>
    /\ Stage(Top) = "children_clear"
    /\ Top.idx % 2 = 0
    /\ ports' = Cleared(order[Top.node][Top.idx \div 2])
    /\ stack' = StepTop(stack)
    /\ UNCHANGED <<build, stone, unit, shape, par, pool, obs, impl, order, user, hist, n_arg, cycles, mode, t_end, n_steps, pc, t, t_last, t_next,
                   sigma, started, stopped, log>>

\* modeling/coupled.rs, Coupled::clear_ports: clear_ports of an atomic child
\* (the default, its own component), and at the end of the coupled model's
\* own component.
ClearPortsStep ==
    /\ stack /= <<>>
    /\ Top.op = "clear_ports"
    /\ \/ /\ Stage(Top) = "children"
          /\ Child(Top) \in Atomics
          /\ ports' = Cleared(Child(Top))
       \/ /\ Stage(Top) = "self"
          /\ ports' = Cleared(Top.node)
    /\ stack' = StepTop(stack)
    /\ UNCHANGED <<build, stone, unit, shape, par, pool, obs, impl, order, user, hist, n_arg, cycles, mode, t_end, n_steps, pc, t, t_last, t_next,
                   sigma, started, stopped, log>>

\* Mutant of CoupledClock: Coupled::stop closes t_next and leaves t_last as
\* the last transition set it.
CoupledClock_StopKeepsLast(n, op) ==
    CASE op = "start"      -> [t_last |-> 0, t_next |-> MinTNext(n)]
      [] op = "transition" -> [t_last |-> t, t_next |-> MinTNext(n)]
      [] op = "stop"       -> [t_last |-> t_last[n], t_next |-> Inf]

\* The clock a coupled model sets at the end of start, stop and transition.
CoupledClock(n, op) ==
    CASE op = "start"      -> [t_last |-> 0, t_next |-> MinTNext(n)]
      [] op = "transition" -> [t_last |-> t, t_next |-> MinTNext(n)]
      [] op = "stop"       -> [t_last |-> t, t_next |-> Inf]

\* The final set_sim_t of Coupled::start, Coupled::transition, Coupled::stop.
CoupledSetClock ==
    /\ stack /= <<>>
    /\ Stage(Top) = "set"
    /\ t_last' = [t_last EXCEPT ![Top.node] = CoupledClock(Top.node, Top.op).t_last]
    /\ t_next' = [t_next EXCEPT ![Top.node] = CoupledClock(Top.node, Top.op).t_next]
    /\ stack' = StepTop(stack)
    /\ UNCHANGED <<build, stone, unit, shape, par, pool, obs, impl, order, user, hist, n_arg, cycles, mode, t_end, n_steps, pc, t, sigma, ports,
                   started, stopped, log>>

(* --------------------------- root coordinator -------------------------- *)

\* RootCoordinator::simulate_time(te): self.start(0.)
SimulateTime(te) ==
    /\ pc = "idle"
    /\ mode' = "time"
    /\ t_end' = te
    /\ pc' = "start"
    /\ stack' = Call(<<>>, Root, "start")
    /\ UNCHANGED <<build, stone, unit, shape, par, pool, obs, impl, order, user, hist, n_arg, cycles, n_steps, t, t_last, t_next, sigma, ports,
                   started, stopped, log>>

\* RootCoordinator::simulate_steps(n): self.start(0.)
SimulateSteps(n) ==
    /\ pc = "idle"
    /\ mode' = "steps"
    /\ n_steps' = n
    /\ n_arg' = n
    /\ pc' = "start"
    /\ stack' = Call(<<>>, Root, "start")
    /\ UNCHANGED <<build, stone, unit, shape, par, pool, obs, impl, order, user, hist, cycles, t_end, t, t_last, t_next, sigma, ports,
                   started, stopped, log>>

\* t_next = self.get_t_next(), after start and at the end of the loop body
\* (where simulate_steps also counts the step).
RootReadTNext ==
    /\ pc \in {"start", "clear"}
    /\ stack = <<>>
    /\ t' = t_next[Root]
    /\ n_steps' = IF pc = "clear" /\ mode = "steps" THEN n_steps - 1 ELSE n_steps
    /\ pc' = "loop"
    /\ UNCHANGED <<build, stone, unit, shape, par, pool, obs, impl, order, user, hist, n_arg, cycles, mode, t_end, stack, t_last, t_next, sigma,
                   ports, started, stopped, log>>

\* Mutant of LoopCondition: simulate_steps loops until t_next is +inf,
\* whatever the number of steps left.
LoopCondition_NoStepBound ==
    IF mode = "time" THEN t < t_end ELSE t < Inf

\* Mutant of LoopCondition: simulate_time loops while t_next <= t_end.
LoopCondition_Inclusive ==
    IF mode = "time" THEN t <= t_end ELSE t < Inf /\ n_steps > 0

\* The loop condition of simulate_time and of simulate_steps.
LoopCondition ==
    IF mode = "time" THEN t < t_end ELSE t < Inf /\ n_steps > 0

\* The loop is entered: self.collection(t_next).
RootCollection ==
    /\ pc = "loop"
    /\ LoopCondition
    /\ pc' = "collection"
    /\ stack' = Call(<<>>, Root, "collection")
    /\ log' = <<>>
    /\ cycles' = IF mode = "steps" THEN cycles + 1 ELSE cycles
    /\ UNCHANGED <<build, stone, unit, shape, par, pool, obs, impl, order, user, hist, n_arg, mode, t_end, n_steps, t, t_last, t_next,
                   sigma, ports, started, stopped>>

\* self.transition(t_next)
RootTransition ==
    /\ pc = "collection"
    /\ stack = <<>>
    /\ pc' = "transition"
    /\ stack' = Call(<<>>, Root, "transition")
    /\ obs' = Snapped
    /\ UNCHANGED <<build, stone, unit, shape, par, pool, impl, order, user, hist, n_arg, cycles, mode, t_end, n_steps, t, t_last, t_next,
                   sigma, ports, started, stopped, log>>

\* self.clear_ports(): the default of the trait (the root's own component)
\* in simulation.rs, the recursive Coupled::clear_ports in modeling/coupled.rs.
RootClearPorts ==
    /\ pc = "transition"
    /\ stack = <<>>
    /\ pc' = "clear"
    /\ IF impl = "simulation"
         THEN /\ ports' = Cleared(Root)
              /\ stack' = stack
         ELSE /\ ports' = ports
              /\ stack' = Call(<<>>, Root, "clear_ports")
    /\ obs' = Snapped
    /\ UNCHANGED <<build, stone, unit, shape, par, pool, impl, order, user, hist, n_arg, cycles, mode, t_end, n_steps, t, t_last, t_next,
                   sigma, started, stopped, log>>

\* The loop is left: self.stop(t_next).
RootStop ==
    /\ pc = "loop"
    /\ ~LoopCondition
    /\ pc' = "stop"
    /\ stack' = Call(<<>>, Root, "stop")
    /\ UNCHANGED <<build, stone, unit, shape, par, pool, obs, impl, order, user, hist, n_arg, cycles, mode, t_end, n_steps, t, t_last, t_next,
                   sigma, ports, started, stopped, log>>

\* simulate_time / simulate_steps returns.
RootReturn ==
    /\ pc = "stop"
    /\ stack = <<>>
    /\ pc' = "done"
    /\ UNCHANGED <<build, stone, unit, shape, par, pool, obs, impl, order, user, hist, n_arg, cycles, mode, t_end, n_steps, t, stack, t_last, t_next,
                   sigma, ports, started, stopped, log>>

\* The arguments the coordinator is run with.
TEnds == (0..MaxTime) \cup {Inf}

Next ==
    \/ \E te \in TEnds : SimulateTime(te)
    \/ \E n \in 0..MaxSteps : SimulateSteps(n)
    \/ RootReadTNext
    \/ RootCollection
    \/ RootTransition
    \/ RootClearPorts
    \/ RootStop
    \/ RootReturn
    \/ \E a \in Atomics : AtomicStart(a)
    \/ \E a \in Atomics : AtomicStop(a)
    \/ \E a \in Atomics : AtomicCollection(a)
    \/ \E a \in Atomics : AtomicTransition(a)
    \/ CoupledCall
    \/ PropagateCoupling
    \/ ClearChildPorts
    \/ ClearPortsStep
    \/ CoupledSetClock

Spec == Init /\ [][Next]_vars

\* The same model is built again, with the atomics in the user's initial
\* states, and the coordinator is run on it again with the same argument.
\* The HashMap of children may iterate in another order.
Rerun ==
    /\ pc = "done"
    /\ user.det
    /\ hist.run = 1
    /\ hist' = [run |-> 2, counts |-> ZeroCounts, first |-> Result(hist.counts)]
    /\ order' \in [Coupleds -> UNION {Orders(n) : n \in Coupleds}]
    /\ \A n \in Coupleds : order'[n] \in Orders(n)
    /\ sigma' = user.init
    /\ n_steps' = n_arg
    /\ cycles' = 0
    /\ pc' = "start"
    /\ t' = 0
    /\ stack' = Call(<<>>, Root, "start")
    /\ t_last' = [n \in Nodes |-> 0]
    /\ t_next' = [n \in Nodes |-> Inf]
    /\ ports' = [p \in AllPorts |-> <<>>]
    /\ started' = [a \in Atomics |-> 0]
    /\ stopped' = [a \in Atomics |-> 0]
    /\ log' = <<>>
    /\ UNCHANGED <<build, stone, unit, shape, par, pool, obs, impl, user, mode, t_end, n_arg>>

\* Two runs over one topology and one deterministic user model: the first
\* iterates the children in the order they were added.
DetInit ==
    /\ obs = NoObs
    /\ unit = NoUnit
    /\ shape = "tree"
    /\ impl \in {"simulation", "modeling"}
    /\ order = [n \in Coupleds |-> Components(n)]
    /\ user \in UserModels
    /\ sigma = user.init
    /\ InitKernel

DetNext == Next \/ Rerun

DetSpec == DetInit /\ [][DetNext]_vars

\* The runs of simulate_steps alone.
StepsNext ==
    \/ \E n \in 0..MaxSteps : SimulateSteps(n)
    \/ RootReadTNext
    \/ RootCollection
    \/ RootTransition
    \/ RootClearPorts
    \/ RootStop
    \/ RootReturn
    \/ \E a \in Atomics : AtomicStart(a)
    \/ \E a \in Atomics : AtomicStop(a)
    \/ \E a \in Atomics : AtomicCollection(a)
    \/ \E a \in Atomics : AtomicTransition(a)
    \/ CoupledCall
    \/ PropagateCoupling
    \/ ClearChildPorts
    \/ ClearPortsStep
    \/ CoupledSetClock

\* The coordinator is a sequential program: a step that can be taken is taken.
StepsSpec == Init /\ [][StepsNext]_vars /\ WF_vars(StepsNext)

(* --------------------------- parallel features ------------------------- *)
(* simulation.rs built with par_start, par_stop, par_collection,           *)
(* par_transition, par_xic and par_eoc: the iteration over the children of *)
(* a coupled model is a rayon par_iter_mut, one task per child, and the    *)
(* iteration over the couplings a par_iter over the groups.  par_iter      *)
(* returns when every task has ended.  The tasks are threads of control    *)
(* of their own: stack is the one that executes, pool holds the others.    *)

\* The top frame is the coupled model waiting for the tasks of its children.
AtJoin(stk) ==
    /\ stk /= <<>>
    /\ ~TaskTop(stk)
    /\ Stage(stk[Len(stk)]) \in {"children", "children_clear"}
    /\ stk[Len(stk)].idx > StageLen(stk[Len(stk)].node, Stage(stk[Len(stk)]))

\* The tasks in the pool that belong to the coupled model waiting on top of stk.
Siblings(stk) == {q \in pool : Len(q) >= Len(stk) /\ SubSeq(q, 1, Len(stk)) = stk}

\* components.par_iter_mut(): the coupled model on top of the stack reaches
\* the iteration over its children; one task per child is created, and the
\* thread takes one of them.
ParFork ==
    /\ par
    /\ stack /= <<>>
    /\ ~TaskTop(stack)
    /\ Stage(Top) \in {"children", "children_clear"}
    /\ Top.idx = 1
    /\ LET wait == [stack EXCEPT ![Len(stack)].idx = StageLen(Top.node, Stage(Top)) + 1]
           task(i) == Append(wait, [Top EXCEPT !.idx = IF Stage(Top) = "children"
                                                          THEN i ELSE 2 * i - 1])
           tasks == {task(i) : i \in 1..Len(order[Top.node])}
       IN  \E q \in tasks :
              /\ stack' = q
              /\ pool' = pool \cup (tasks \ {q})
    /\ UNCHANGED <<build, stone, unit, shape, par, obs, impl, order, user, hist, n_arg, cycles, mode, t_end,
                   n_steps, pc, t, t_last, t_next, sigma, ports, started, stopped, log>>

\* The last task of a coupled model has ended: the par_iter returns and
\* the coupled model goes on.
ParJoin ==
    /\ par
    /\ AtJoin(stack)
    /\ Siblings(stack) = {}
    /\ stack' = StepTop(stack)
    /\ UNCHANGED <<build, stone, unit, shape, par, pool, obs, impl, order, user, hist, n_arg, cycles, mode,
                   t_end, n_steps, pc, t, t_last, t_next, sigma, ports, started, stopped, log>>

\* Another task executes: the one that executed has ended while others of
\* its coupled model have not, or it is suspended where it is.
ParSwitch ==
    /\ par
    /\ stack /= <<>>
    /\ \E q \in pool :
          /\ stack' = q
          /\ IF AtJoin(stack)
               THEN /\ Siblings(stack) /= {}
                    /\ pool' = pool \ {q}
               ELSE pool' = (pool \ {q}) \cup {stack}
    /\ UNCHANGED <<build, stone, unit, shape, par, obs, impl, order, user, hist, n_arg, cycles, mode, t_end,
                   n_steps, pc, t, t_last, t_next, sigma, ports, started, stopped, log>>

\* The same model is built again with the same user model, the parallel
\* features are enabled, and the coordinator is run on it with the same
\* argument.
ParRerun ==
    /\ pc = "done"
    /\ user.det
    /\ hist.run = 1
    /\ par' = TRUE
    /\ obs' = [on |-> TRUE, view |-> NoObs.view, snaps |-> <<>>,
               first |-> [view |-> obs.view, snaps |-> obs.snaps]]
    /\ hist' = [run |-> 2, counts |-> ZeroCounts, first |-> Result(hist.counts)]
    /\ sigma' = user.init
    /\ n_steps' = n_arg
    /\ cycles' = 0
    /\ pc' = "start"
    /\ t' = 0
    /\ stack' = Call(<<>>, Root, "start")
    /\ t_last' = [n \in Nodes |-> 0]
    /\ t_next' = [n \in Nodes |-> Inf]
    /\ ports' = [p \in AllPorts |-> <<>>]
    /\ started' = [a \in Atomics |-> 0]
    /\ stopped' = [a \in Atomics |-> 0]
    /\ log' = <<>>
    /\ UNCHANGED <<build, stone, unit, shape, pool, impl, order, user, mode, t_end, n_arg>>

\* simulation.rs, a deterministic user model; the first run is sequential
\* and what the atomics and the coordinator see is recorded.
ParInit ==
    /\ obs = [NoObs EXCEPT !.on = TRUE]
    /\ unit = NoUnit
    /\ shape = "tree"
    /\ impl = "simulation"
    /\ order = [n \in Coupleds |-> Components(n)]
    /\ user \in UserModels
    /\ sigma = user.init
    /\ InitKernel

ParNext ==
    \/ \E te \in TEnds : SimulateTime(te)
    \/ \E n \in 0..MaxSteps : SimulateSteps(n)
    \/ RootReadTNext
    \/ RootCollection
    \/ RootTransition
    \/ RootClearPorts
    \/ RootStop
    \/ RootReturn
    \/ \E a \in Atomics : AtomicStart(a)
    \/ \E a \in Atomics : AtomicStop(a)
    \/ \E a \in Atomics : AtomicCollection(a)
    \/ \E a \in Atomics : AtomicTransition(a)
    \/ CoupledCall
    \/ PropagateCoupling
    \/ ClearChildPorts
    \/ CoupledSetClock
    \/ ParFork
    \/ ParJoin
    \/ ParSwitch
    \/ ParRerun

ParSpec == ParInit /\ [][ParNext]_vars

(* ------------------------------ flat models ---------------------------- *)
(* simulate_time on the coupled models without nested coupled models:      *)
(* a single atomic, and two atomics joined by one IC.                      *)

\* The model is built with the atomics in the initial states of a
\* deterministic user model; the children are iterated in any order the
\* simulator allows.
FlatInit ==
    /\ obs = NoObs
    /\ unit = NoUnit
    /\ shape \in {"single", "pair"}
    /\ impl \in {"simulation", "modeling"}
    /\ order \in [Coupleds -> UNION {Orders(n) : n \in Coupleds}]
    /\ \A n \in Coupleds : order[n] \in Orders(n)
    /\ user \in UserModels
    /\ sigma = user.init
    /\ InitKernel

\* No child is a coupled model: every call of a coupled model goes to an
\* atomic.
FlatNext ==
    \/ \E te \in TEnds : SimulateTime(te)
    \/ RootReadTNext
    \/ RootCollection
    \/ RootTransition
    \/ RootClearPorts
    \/ RootStop
    \/ RootReturn
    \/ \E a \in Atomics : AtomicStart(a)
    \/ \E a \in Atomics : AtomicStop(a)
    \/ \E a \in Atomics : AtomicCollection(a)
    \/ \E a \in Atomics : AtomicTransition(a)
    \/ PropagateCoupling
    \/ ClearChildPorts
    \/ ClearPortsStep
    \/ CoupledSetClock

\* The coordinator is a sequential program: a step that can be taken is taken.
FlatSpec == FlatInit /\ [][FlatNext]_vars /\ WF_vars(FlatNext)

(* --------------------------- one atomic model -------------------------- *)
(* One atomic model and its simulator, a hook at a time.  The user state   *)
(* is the sequence of the deltas that built it, each with the elapsed time *)
(* and the input values it was given, so that two states are equal only if *)
(* the same deltas ran in the same order with the same arguments.  ta() is *)
(* a function of the delta that ran last.  The model may override          *)
(* delta_conf; if it does not, the default body runs.  The atomic is the   *)
(* child of a coupled model, which may have other children.                *)

\* The values a parent may propagate into the input port.
UnitValues == {"v"}

\* The user's atomic models: what ta() returns after each delta, and whether
\* delta_conf is overridden.
UnitModels ==
    [ta : [{"new", "delta_int", "delta_ext", "delta_conf"} -> TaSet],
     override : BOOLEAN]

\* ta() on user state s
UnitTa(s) ==
    LET x == unit.model.ta[IF s = <<>> THEN "new" ELSE s[Len(s)].hook]
    IN  IF x = Inf \/ unit.t + x <= MaxTime THEN x ELSE Inf

\* The user state after hook has run on state s with elapsed time e and the
\* input port holding input; delta_int has no argument and may not read the
\* input.
UnitDelta(s, hook, e, input) ==
    Append(s, [hook |-> hook,
               e |-> IF hook = "delta_int" THEN 0 ELSE e,
               input |-> IF hook = "delta_int" THEN <<>> ELSE input])

\* Mutant of DefaultDeltaConf: delta_ext(0) first, delta_int afterwards.
DefaultDeltaConf_ExtFirst ==
    << [hook |-> "delta_ext", e |-> 0], [hook |-> "delta_int", e |-> 0] >>

\* Atomic::delta_conf, the default body: self.delta_int(); self.delta_ext(0.)
DefaultDeltaConf ==
    << [hook |-> "delta_int", e |-> 0], [hook |-> "delta_ext", e |-> 0] >>

\* The deltas <T as Simulator>::transition(tt) calls, in order, with the
\* elapsed time each is given; none when it returns early.
UnitBody(tt) ==
    IF unit.input /= <<>>
      THEN IF tt = unit.t_next
             THEN IF unit.model.override
                    THEN << [hook |-> "delta_conf", e |-> 0] >>
                    ELSE DefaultDeltaConf
             ELSE << [hook |-> "delta_ext", e |-> tt - unit.t_last] >>
      ELSE IF tt = unit.t_next
             THEN << [hook |-> "delta_int", e |-> 0] >>
             ELSE << >>

\* Mutant of UnitSetClock: ta() is evaluated before the delta, on the state
\* the transition started from.
UnitClock_TaBefore == Plus(unit.t, UnitTa(unit.before))

\* t + self.ta(), on the state the deltas left
UnitClock == Plus(unit.t, UnitTa(unit.state))

\* The least t_next a coupled model may find among its children at time tt,
\* when one of them is at t_next = tn: tn, or the earlier t_next of a sibling.
SiblingTimes(tt, tn) == {x \in (0..MaxTime) \cup {Inf} : tt <= x /\ x <= tn}

\* <T as Simulator>::start(t_start): set_sim_t(t_start, t_start + ta()).
\* Coupled::start of the parent then sets the parent's clock to t_start and
\* the least t_next of its children.
UnitStart ==
    /\ unit.pc = "new"
    /\ \E x \in SiblingTimes(0, Plus(0, UnitTa(unit.state))) :
         unit' = [unit EXCEPT !.pc = "idle", !.t_last = 0,
                              !.t_next = Plus(0, UnitTa(unit.state)),
                              !.calls = Append(@, [hook |-> "ta", state |-> unit.state]),
                              !.parent = [t_last |-> 0, t_next |-> x]]
    /\ UNCHANGED <<kernel_but_unit, build, stone>>

\* The parent propagates value v into the input port before it calls
\* transition.
UnitReceive(v) ==
    /\ unit.pc = "idle"
    /\ Len(unit.input) < MaxPorts
    /\ unit' = [unit EXCEPT !.input = Append(@, v)]
    /\ UNCHANGED <<kernel_but_unit, build, stone>>

\* Mutant of UnitAfterBranch: the early return is missing, ta() and
\* set_sim_t follow every branch.
UnitAfterBranch_NoReturn(body) == "delta"

\* After the branch: `return` when no delta is due, the deltas and then the
\* clock otherwise.
UnitAfterBranch(body) == IF body = <<>> THEN "returned" ELSE "delta"

\* Coupled::transition(tt) of the parent calls transition(tt) on the atomic,
\* with t_last <= tt <= t_next and tt not before the parent's last cycle;
\* the atomic picks its branch.
UnitTransition(tt) ==
    /\ unit.pc = "idle"
    /\ unit.n < MaxSteps
    /\ unit.t_last <= tt
    /\ unit.parent.t_last <= tt
    /\ tt <= unit.t_next
    /\ unit' = [unit EXCEPT !.pc = UnitAfterBranch(UnitBody(tt)),
                            !.t = tt, !.n = @ + 1,
                            !.todo = UnitBody(tt),
                            !.before = unit.state,
                            !.received = unit.input,
                            !.entry = [t_last |-> unit.t_last, t_next |-> unit.t_next],
                            !.mark = Len(unit.calls)]
    /\ UNCHANGED <<kernel_but_unit, build, stone>>

\* The next delta of the branch runs on the user state.
UnitRunDelta ==
    /\ unit.pc = "delta"
    /\ unit.todo /= <<>>
    /\ LET d == unit.todo[1]
       IN  unit' = [unit EXCEPT
                       !.state = UnitDelta(unit.state, d.hook, d.e, unit.input),
                       !.calls = Append(@, [hook |-> d.hook, state |-> unit.state]),
                       !.todo = Tail(@)]
    /\ UNCHANGED <<kernel_but_unit, build, stone>>

\* self.set_sim_t(t, t + self.ta())
UnitSetClock ==
    /\ unit.pc = "delta"
    /\ unit.todo = <<>>
    /\ unit' = [unit EXCEPT !.pc = "returned", !.t_last = unit.t,
                            !.t_next = UnitClock,
                            !.calls = Append(@, [hook |-> "ta", state |-> unit.state])]
    /\ UNCHANGED <<kernel_but_unit, build, stone>>

\* Component::clear_ports, called by the parent after transition returned.
UnitClearPorts ==
    /\ unit.pc = "returned"
    /\ unit' = [unit EXCEPT !.pc = "cleared", !.input = <<>>]
    /\ UNCHANGED <<kernel_but_unit, build, stone>>

\* Coupled::transition of the parent ends: self.set_sim_t(t, next_t), the
\* least t_next of its children.
UnitParentSetClock ==
    /\ unit.pc = "cleared"
    /\ \E x \in SiblingTimes(unit.t, unit.t_next) :
         unit' = [unit EXCEPT !.pc = "idle",
                              !.parent = [t_last |-> unit.t, t_next |-> x]]
    /\ UNCHANGED <<kernel_but_unit, build, stone>>

\* A new atomic of any user model: Component::new leaves t_last = 0 and
\* t_next = INFINITY.
UnitInit ==
    /\ obs = NoObs
    /\ \E m \in UnitModels :
         unit = [pc |-> "new", model |-> m, state |-> <<>>, input |-> <<>>,
                 t |-> 0, t_last |-> 0, t_next |-> Inf, n |-> 0,
                 todo |-> <<>>, before |-> <<>>, received |-> <<>>,
                 entry |-> [t_last |-> 0, t_next |-> Inf],
                 parent |-> [t_last |-> 0, t_next |-> Inf],
                 calls |-> <<>>, mark |-> 0]
    /\ shape = "tree"
    /\ impl = "simulation"
    /\ order = [n \in Coupleds |-> Components(n)]
    /\ sigma = [a \in Atomics |-> Inf]
    /\ user = FreeUser
    /\ InitKernel

UnitNext ==
    \/ UnitStart
    \/ \E v \in UnitValues : UnitReceive(v)
    \/ \E tt \in 0..MaxTime : UnitTransition(tt)
    \/ UnitRunDelta
    \/ UnitSetClock
    \/ UnitClearPorts
    \/ UnitParentSetClock

UnitSpec == UnitInit /\ [][UnitNext]_vars

(* ------------------------- construction of a model --------------------- *)
(* A test or a user program builds a coupled model call by call.  A call   *)
(* that panics ends the program: build keeps the model as the call left it *)
(* and the kind of the panic.                                              *)

kernel == <<unit, kernel_but_unit>>

Building == build.err = "none"

\* The ports of the coupled model stay within the bound.
WithinPorts(c) == Len(c.input_ports) + Len(c.output_ports) <= MaxPorts

\* Coupled::add_in_port::<T>(port_name): self.component.add_in_port(port_name)
AddInPort(name, T) ==
    /\ Building
    /\ LET r == add_in_port(build.top.component, name, T)
       IN  /\ WithinPorts(r.val)
           /\ build' = [top |-> [build.top EXCEPT !.component = r.val],
                     op |-> "add_in_port", err |-> r.err]
    /\ UNCHANGED <<kernel, stone>>

\* Coupled::add_out_port::<T>(port_name)
AddOutPort(name, T) ==
    /\ Building
    /\ LET r == add_out_port(build.top.component, name, T)
       IN  /\ WithinPorts(r.val)
           /\ build' = [top |-> [build.top EXCEPT !.component = r.val],
                     op |-> "add_out_port", err |-> r.err]
    /\ UNCHANGED <<kernel, stone>>

\* Coupled::add_component(component)
AddComponent(child) ==
    /\ Building
    /\ LET r == add_component(build.top, child)
       IN  build' = [top |-> r.val, op |-> "add_component", err |-> r.err]
    /\ UNCHANGED <<kernel, stone>>

\* Coupled::add_eic(port_from_name, component_to_name, port_to_name)
AddEic(pf, c, pt) ==
    /\ Building
    /\ LET r == add_eic(build.top, pf, c, pt)
       IN  build' = [top |-> r.val, op |-> "add_eic", err |-> r.err]
    /\ UNCHANGED <<kernel, stone>>

\* Coupled::add_ic(component_from_name, port_from_name, component_to_name,
\* port_to_name)
AddIc(cf, pf, ct, pt) ==
    /\ Building
    /\ LET r == add_ic(build.top, cf, pf, ct, pt)
       IN  build' = [top |-> r.val, op |-> "add_ic", err |-> r.err]
    /\ UNCHANGED <<kernel, stone>>

\* Coupled::add_eoc(component_from_name, port_from_name, port_to_name)
AddEoc(cf, pf, pt) ==
    /\ Building
    /\ LET r == add_eoc(build.top, cf, pf, pt)
       IN  build' = [top |-> r.val, op |-> "add_eoc", err |-> r.err]
    /\ UNCHANGED <<kernel, stone>>

\* Nothing is simulated while a model is built.
BuildInit ==
    /\ obs = NoObs
    /\ unit = NoUnit
    /\ shape = "tree"
    /\ impl = "modeling"
    /\ order = [n \in Coupleds |-> Components(n)]
    /\ sigma = [a \in Atomics |-> Inf]
    /\ user = FreeUser
    /\ InitKernel

BuildNext ==
    \/ \E name \in PortNames, T \in ElementTypes : AddInPort(name, T)
    \/ \E name \in PortNames, T \in ElementTypes : AddOutPort(name, T)
    \/ \E child \in ChildComponents : AddComponent(child)
    \/ \E pf \in PortNames, c \in ComponentNames, pt \in PortNames : AddEic(pf, c, pt)
    \/ \E cf \in ComponentNames, pf \in PortNames, ct \in ComponentNames, pt \in PortNames :
           AddIc(cf, pf, ct, pt)
    \/ \E cf \in ComponentNames, pf \in PortNames, pt \in PortNames : AddEoc(cf, pf, pt)

BuildSpec == BuildInit /\ [][BuildNext]_vars

(* --------------------------- a DEVStone run ---------------------------- *)
(* The simulator of the sections above, applied to the tree HI::new or     *)
(* HO::new has assembled.  A model of the tree is known by its path from   *)
(* the root, a port by the path of its model and its name.  s holds the    *)
(* clocks, the atomics' states (sigma: what ta returns), the port buffers  *)
(* and the probe.  The children are visited in the order they were added.  *)

\* The models of the tree under node, each with its path.
RECURSIVE StoneNodes(_, _)
StoneNodes(node, path) ==
    {<<path, node>>} \cup
    UNION {StoneNodes(node.components[i], Append(path, node.components[i].name)) :
               i \in 1..Len(node.components)}

\* RootCoordinator::new(coupled): the state of a model just assembled.
\* Component::new leaves t_last = 0 and t_next = INFINITY; a DEVStoneAtomic
\* is passive, the seeder is due at once.
StoneSim(model, probe) ==
    LET all == StoneNodes(model, <<model.name>>)
    IN  [t_last |-> [n \in {x[1] : x \in all} |-> 0],
         t_next |-> [n \in {x[1] : x \in all} |-> Inf],
         sigma  |-> [n \in {x[1] : x \in {y \in all : y[2].kind /= "coupled"}} |->
                        IF <<n, DEVStoneSeeder(n[Len(n)])>> \in all THEN 0 ELSE Inf],
         ports  |-> [k \in UNION {{<<x[1], q>> :
                                      q \in Range(x[2].input) \cup Range(x[2].output)} :
                                  x \in all} |-> <<>>],
         probe  |-> probe]

\* The state of the atomic at path.
SigmaOf(s, node, path) == s.sigma[path]

SetSigma(s, node, path, v) == [s EXCEPT !.sigma[path] = v]

\* Component::set_sim_t(t_last, t_next)
StoneSetSimT(s, path, tl, tn) == [s EXCEPT !.t_last[path] = tl, !.t_next[path] = tn]

\* The port a coupling of the coupled model at path names.
PortKey(path, comp, port) ==
    IF comp = Own THEN <<path, port>> ELSE <<Append(path, comp), port>>

\* Mutant of StonePropagate: a source that has been propagated by an earlier
\* coupling of the list is not propagated again.
RECURSIVE StonePropagate_FirstDestinationOnly(_, _, _, _)
StonePropagate_FirstDestinationOnly(s, table, path, i) ==
    IF i > Len(table) THEN s
    ELSE LET c == table[i]
             from == PortKey(path, c.cf, c.pf)
             to == PortKey(path, c.ct, c.pt)
         IN  IF s.ports[from] = <<>>
                  \/ \E j \in 1..(i - 1) : table[j].cf = c.cf /\ table[j].pf = c.pf
             THEN StonePropagate_FirstDestinationOnly(s, table, path, i + 1)
             ELSE StonePropagate_FirstDestinationOnly(
                      [s EXCEPT !.ports[to] = @ \o s.ports[from]], table, path, i + 1)

\* Propagates couplings i.. of the list, in order:
\* port_to.propagate(port_from) appends the values of port_from, which is
\* nothing if port_from is empty
RECURSIVE StonePropagate(_, _, _, _)
StonePropagate(s, table, path, i) ==
    IF i > Len(table) THEN s
    ELSE LET c == table[i]
             from == PortKey(path, c.cf, c.pf)
             to == PortKey(path, c.ct, c.pt)
         IN  IF s.ports[from] = <<>>
             THEN StonePropagate(s, table, path, i + 1)
             ELSE StonePropagate([s EXCEPT !.ports[to] = @ \o s.ports[from]],
                                 table, path, i + 1)

\* Component::clear_ports of the model at path
StoneClearOwn(s, node, path) ==
    [s EXCEPT !.ports = [k \in DOMAIN s.ports |->
                            IF k[1] = path THEN <<>> ELSE s.ports[k]]]

\* Component::is_input_empty
StoneInputEmpty(s, node, path) ==
    \A q \in Range(node.input) : s.ports[<<path, q>>] = <<>>

\* lambda of DEVStoneAtomic and of DEVStoneSeeder: one value on "output"
StoneLambda(s, node, path) ==
    [s EXCEPT !.ports[<<path, "output">>] = Append(@, 0)]

\* delta_int: DEVStoneAtomic counts it and passivates; the seeder passivates
StoneDeltaInt(s, node, path) ==
    LET s1 == SetSigma(s, node, path, Inf)
    IN  IF node.kind = "atomic"
        THEN [s1 EXCEPT !.probe.n_internals = @ + 1]
        ELSE s1

\* delta_ext: DEVStoneAtomic counts the activation and the values on its
\* input, and schedules itself at once
StoneDeltaExt(s, node, path, e) ==
    IF node.kind = "atomic"
    THEN [SetSigma(s, node, path, 0) EXCEPT
              !.probe.n_externals = @ + 1,
              !.probe.n_events = @ + Len(s.ports[<<path, "input">>])]
    ELSE s

\* Atomic::delta_conf, the default: delta_int and then delta_ext(0)
StoneDeltaConf(s, node, path) ==
    StoneDeltaExt(StoneDeltaInt(s, node, path), node, path, 0)

\* Mutant of StoneAtomicTransition: input at t = t_next runs delta_ext only.
StoneAtomicTransition_NoConf(s, node, path, tt) ==
    LET s1 == IF ~StoneInputEmpty(s, node, path)
              THEN StoneDeltaExt(s, node, path, tt - s.t_last[path])
              ELSE StoneDeltaInt(s, node, path)
    IN  IF StoneInputEmpty(s, node, path) /\ tt /= s.t_next[path]
        THEN s
        ELSE StoneSetSimT(s1, path, tt, Plus(tt, SigmaOf(s1, node, path)))

\* <T as Simulator>::transition(t) of an atomic
StoneAtomicTransition(s, node, path, tt) ==
    LET s1 == IF ~StoneInputEmpty(s, node, path)
              THEN IF tt = s.t_next[path]
                   THEN StoneDeltaConf(s, node, path)
                   ELSE StoneDeltaExt(s, node, path, tt - s.t_last[path])
              ELSE StoneDeltaInt(s, node, path)
    IN  IF StoneInputEmpty(s, node, path) /\ tt /= s.t_next[path]
        THEN s
        ELSE StoneSetSimT(s1, path, tt, Plus(tt, SigmaOf(s1, node, path)))

\* path is the path of the model at under, or of one of its ancestors.
Under(path, under) == Len(path) <= Len(under) /\ SubSeq(under, 1, Len(path)) = path

\* Simulator::start(t_start) of the model at path.  StoneStartAll starts the
\* children i.. of a coupled model and returns the least of next and their
\* t_next ("if t < t_next { t_next = t }").
RECURSIVE StoneStart(_, _, _, _)
RECURSIVE StoneStartAll(_, _, _, _, _, _)
StoneStart(s, node, path, tt) ==
    IF node.kind = "coupled"
    THEN LET r == StoneStartAll(s, node, path, tt, 1, Inf)
         IN  StoneSetSimT(r.s, path, tt, r.next)
    ELSE StoneSetSimT(s, path, tt, Plus(tt, SigmaOf(s, node, path)))

StoneStartAll(s, node, path, tt, i, next) ==
    IF i > Len(node.components) THEN [s |-> s, next |-> next]
    ELSE LET c == node.components[i]
             s1 == StoneStart(s, c, Append(path, c.name), tt)
         IN  IF s1.t_next[Append(path, c.name)] < next
             THEN StoneStartAll(s1, node, path, tt, i + 1, s1.t_next[Append(path, c.name)])
             ELSE StoneStartAll(s1, node, path, tt, i + 1, next)

\* Simulator::stop(t_stop) of the model at path: every atomic under it,
\* and every coupled model after its children, is given the clock
\* (t_stop, INFINITY)
StoneStop(s, node, path, tt) ==
    [s EXCEPT !.t_last = [n \in DOMAIN s.t_last |-> IF Under(path, n) THEN tt ELSE s.t_last[n]],
              !.t_next = [n \in DOMAIN s.t_next |-> IF Under(path, n) THEN Inf ELSE s.t_next[n]]]

\* Simulator::collection(t): an atomic runs lambda if it is due; a coupled
\* model that is due collects its children and propagates its EOCs, after
\* its ICs in modeling/coupled.rs.  StoneCollectionAll collects the
\* children i.. of a coupled model.
RECURSIVE StoneCollection(_, _, _, _)
RECURSIVE StoneCollectionAll(_, _, _, _, _)
StoneCollection(s, node, path, tt) ==
    IF ~(tt >= s.t_next[path]) THEN s
    ELSE IF node.kind /= "coupled" THEN StoneLambda(s, node, path)
    ELSE LET s1 == StoneCollectionAll(s, node, path, tt, 1)
             s2 == IF impl = "modeling"
                   THEN StonePropagate(s1, node.ic_vec, path, 1)
                   ELSE s1
         IN  StonePropagate(s2, node.eoc_vec, path, 1)

StoneCollectionAll(s, node, path, tt, i) ==
    IF i > Len(node.components) THEN s
    ELSE LET c == node.components[i]
         IN  IF ~(tt >= s.t_next[Append(path, c.name)])
             THEN StoneCollectionAll(s, node, path, tt, i + 1)
             ELSE StoneCollectionAll(StoneCollection(s, c, Append(path, c.name), tt),
                                     node, path, tt, i + 1)

\* Simulator::transition(t): a coupled model propagates its EICs (and its
\* ICs in simulation.rs), runs the transition of every child (and clears
\* the child's ports in simulation.rs) and sets its clock.
\* StoneTransitionAll does the children i.. and returns the least of next
\* and their t_next.
RECURSIVE StoneTransition(_, _, _, _)
RECURSIVE StoneTransitionAll(_, _, _, _, _, _)
\* Mutant of StoneTransition: a coupled model runs the transitions of its
\* children first and propagates its couplings afterwards.
StoneTransition_ChildrenFirst(s, node, path, tt) ==
    IF node.kind /= "coupled" THEN StoneAtomicTransition(s, node, path, tt)
    ELSE LET r  == StoneTransitionAll(s, node, path, tt, 1, Inf)
             s1 == StonePropagate(r.s, node.eic_vec, path, 1)
             s2 == IF impl = "simulation"
                   THEN StonePropagate(s1, node.ic_vec, path, 1)
                   ELSE s1
         IN  StoneSetSimT(s2, path, tt, r.next)

StoneTransition(s, node, path, tt) ==
    IF node.kind /= "coupled" THEN StoneAtomicTransition(s, node, path, tt)
    ELSE LET s1 == StonePropagate(s, node.eic_vec, path, 1)
             s2 == IF impl = "simulation"
                   THEN StonePropagate(s1, node.ic_vec, path, 1)
                   ELSE s1
             r  == StoneTransitionAll(s2, node, path, tt, 1, Inf)
         IN  StoneSetSimT(r.s, path, tt, r.next)

StoneTransitionAll(s, node, path, tt, i, next) ==
    IF i > Len(node.components) THEN [s |-> s, next |-> next]
    ELSE LET c == node.components[i]
             s1 == StoneTransition(s, c, Append(path, c.name), tt)
             s2 == IF impl = "simulation"
                   THEN StoneClearOwn(s1, c, Append(path, c.name))
                   ELSE s1
         IN  IF s2.t_next[Append(path, c.name)] < next
             THEN StoneTransitionAll(s2, node, path, tt, i + 1,
                                     s2.t_next[Append(path, c.name)])
             ELSE StoneTransitionAll(s2, node, path, tt, i + 1, next)

\* Simulator::clear_ports: the model's own ports, and in
\* modeling/coupled.rs first those of every model under it
StoneClearPorts(s, node, path) ==
    IF node.kind = "coupled" /\ impl = "modeling"
    THEN [s EXCEPT !.ports = [k \in DOMAIN s.ports |->
                                 IF Under(path, k[1]) THEN <<>> ELSE s.ports[k]]]
    ELSE StoneClearOwn(s, node, path)

StoneRoot == <<stone.model.name>>

\* A test begins: HI::_create_test(width, depth, probe) or
\* HO::create(width, depth, 0, 0, probe) with a fresh probe calls
\* Self::new(width, depth, probe), which calls itself down to depth 1.
StoneBegin(family, width, depth) ==
    /\ stone.phase = "none"
    /\ stone' = [phase |-> "new", family |-> family, width |-> width,
                 depth |-> depth, level |-> 0, model |-> StoneCoupled(Name("none", 0)),
                 probe |-> NewProbe]
    /\ UNCHANGED <<kernel, build>>

\* The calls of HI::new return, the innermost first: the body of the call
\* for depth level + 1 runs with what the call for depth level returned.
NewHI ==
    /\ stone.phase = "new"
    /\ stone.family = "HI"
    /\ stone.level < stone.depth
    /\ LET r == HI_new(stone.width, stone.level + 1, stone.model, stone.probe)
       IN  stone' = [stone EXCEPT !.level = @ + 1, !.model = r.coupled, !.probe = r.probe]
    /\ UNCHANGED <<kernel, build>>

\* The calls of HO::new return.
NewHO ==
    /\ stone.phase = "new"
    /\ stone.family = "HO"
    /\ stone.level < stone.depth
    /\ LET r == HO_new(stone.width, stone.level + 1, stone.model, stone.probe)
       IN  stone' = [stone EXCEPT !.level = @ + 1, !.model = r.coupled, !.probe = r.probe]
    /\ UNCHANGED <<kernel, build>>

\* The rest of HI::_create_test or HO::create, and RootCoordinator::new.
StoneCreate ==
    /\ stone.phase = "new"
    /\ stone.level = stone.depth
    /\ LET coupled == IF stone.family = "HI" THEN HI_create_test(stone.model)
                      ELSE HO_create(stone.model)
       IN  stone' = [phase |-> "built", family |-> stone.family, width |-> stone.width,
                     depth |-> stone.depth, model |-> coupled, t |-> 0, cycles |-> 0,
                     s |-> StoneSim(coupled, stone.probe)]
    /\ UNCHANGED <<kernel, build>>

\* simulate_time(INFINITY): self.start(0.); t_next = self.get_t_next()
StoneSimulate ==
    /\ stone.phase = "built"
    /\ LET s1 == StoneStart(stone.s, stone.model, StoneRoot, 0)
       IN  stone' = [stone EXCEPT !.phase = "loop", !.s = s1, !.t = s1.t_next[StoneRoot]]
    /\ UNCHANGED <<kernel, build>>

\* while t_next < t_end { self.collection(t_next)
StoneRootCollection ==
    /\ stone.phase = "loop"
    /\ stone.t < Inf
    /\ stone' = [stone EXCEPT !.phase = "collection", !.cycles = @ + 1,
                              !.s = StoneCollection(stone.s, stone.model, StoneRoot, stone.t)]
    /\ UNCHANGED <<kernel, build>>

\* self.transition(t_next)
StoneRootTransition ==
    /\ stone.phase = "collection"
    /\ stone' = [stone EXCEPT !.phase = "transition",
                              !.s = StoneTransition(stone.s, stone.model, StoneRoot, stone.t)]
    /\ UNCHANGED <<kernel, build>>

\* self.clear_ports(); t_next = self.get_t_next() }
StoneRootClearPorts ==
    /\ stone.phase = "transition"
    /\ LET s1 == StoneClearPorts(stone.s, stone.model, StoneRoot)
       IN  stone' = [stone EXCEPT !.phase = "loop", !.s = s1, !.t = s1.t_next[StoneRoot]]
    /\ UNCHANGED <<kernel, build>>

\* self.stop(t_next)
StoneRootStop ==
    /\ stone.phase = "loop"
    /\ ~(stone.t < Inf)
    /\ stone' = [stone EXCEPT !.phase = "done",
                              !.s = StoneStop(stone.s, stone.model, StoneRoot, stone.t)]
    /\ UNCHANGED <<kernel, build>>

StoneInit ==
    /\ obs = NoObs
    /\ unit = NoUnit
    /\ shape = "tree"
    /\ impl \in {"simulation", "modeling"}
    /\ order = [n \in Coupleds |-> Components(n)]
    /\ sigma = [a \in Atomics |-> Inf]
    /\ user = FreeUser
    /\ InitKernel

StoneNext ==
    \/ \E family \in {"HI", "HO"}, wd \in StoneSizes : StoneBegin(family, wd[1], wd[2])
    \/ NewHI
    \/ NewHO
    \/ StoneCreate
    \/ StoneSimulate
    \/ StoneRootCollection
    \/ StoneRootTransition
    \/ StoneRootClearPorts
    \/ StoneRootStop

StoneSpec == StoneInit /\ [][StoneNext]_vars

(* ------------------------------ properties ----------------------------- *)

\* The outcomes of <T as Simulator>::transition on an atomic.
Transitions == Deltas \cup {"none"}

LogIdx == 1..Len(log)

\* A cycle of the coordinator is running (pc) or has run (the log holds it).
InCycle == pc \in {"collection", "transition", "clear"}

\* Atomic b was imminent when the cycle of time tt began: its t_next was tt
\* before its own transition of this cycle, the only step that changes it.
ImminentAtCycleStart(b, tt) ==
    IF \E k \in LogIdx : log[k].a = b /\ log[k].kind \in Transitions
      THEN \E k \in LogIdx :
              log[k].a = b /\ log[k].kind \in Transitions /\ log[k].tn = tt
      ELSE t_next[b] = tt

\* C1: in every cycle the collection phase is over before the transition
\* phase begins: when a delta is invoked, the lambda of every atomic that is
\* imminent in this cycle has already been invoked, and no lambda is invoked
\* after a delta.
C1_CollectionBeforeTransition ==
    \A i \in LogIdx :
        log[i].kind \in Deltas =>
            /\ \A j \in LogIdx : j > i => log[j].kind /= "lambda"
            /\ \A b \in Atomics :
                  ImminentAtCycleStart(b, log[i].t) =>
                      \E j \in LogIdx :
                          j < i /\ log[j].kind = "lambda" /\ log[j].a = b

\* Both atomics were imminent, both lambdas ran, and then a delta ran.
C1_Witness ==
    \E i, j, k \in LogIdx :
        /\ i < j /\ j < k
        /\ log[i].kind = "lambda" /\ log[j].kind = "lambda"
        /\ log[k].kind \in Deltas

\* C2: lambda is invoked on an atomic only when the cycle time equals the
\* atomic's t_next.
C2_LambdaOnlyAtTNext ==
    \A i \in LogIdx : log[i].kind = "lambda" => log[i].t = log[i].tn

\* A lambda ran at time 1 while another atomic, scheduled later, was passed over.
C2_Witness ==
    /\ pc = "transition"
    /\ \E i \in LogIdx : log[i].kind = "lambda" /\ log[i].t = 1
    /\ \E b \in Atomics :
          /\ t_next[b] > t
          /\ \A i \in LogIdx : log[i].a = b => log[i].kind /= "lambda"

\* C3: delta_ext(e) is invoked only on an atomic with a non-empty input port,
\* at a time before its t_next, and with e = t - t_last.
C3_DeltaExtContract ==
    \A i \in LogIdx :
        log[i].kind = "ext" =>
            /\ ~log[i].in_empty
            /\ log[i].t < log[i].tn
            /\ log[i].e = log[i].t - log[i].tl

\* A delta_ext ran on an atomic whose last transition was not at time 0.
C3_Witness ==
    \E i \in LogIdx : log[i].kind = "ext" /\ log[i].tl > 0 /\ log[i].e > 0

\* The other outcomes of transition on the atomic of log entry i, this cycle.
OtherDeltas(i) ==
    {j \in LogIdx : j /= i /\ log[j].a = log[i].a /\ log[j].kind \in Deltas}

\* C4: when transition reaches an atomic with a non-empty input port at
\* t = t_next, the kernel invokes delta_conf, once, and no delta_int or
\* delta_ext on that atomic in that cycle.
C4_ConfluentOnce ==
    \A i \in LogIdx :
        (log[i].kind \in Transitions /\ ~log[i].in_empty /\ log[i].t = log[i].tn) =>
            /\ log[i].kind = "conf"
            /\ OtherDeltas(i) = {}

\* A delta_conf ran.
C4_Witness ==
    \E i \in LogIdx : log[i].kind = "conf" /\ ~log[i].in_empty

\* C5: when transition reaches an atomic with empty input ports at
\* t = t_next, the kernel invokes delta_int, once, and no other delta; and it
\* invokes delta_int under no other condition.
C5_InternalOnce ==
    \A i \in LogIdx :
        /\ (log[i].kind \in Transitions /\ log[i].in_empty /\ log[i].t = log[i].tn) =>
              (log[i].kind = "int" /\ OtherDeltas(i) = {})
        /\ log[i].kind = "int" => (log[i].in_empty /\ log[i].t = log[i].tn)

\* A delta_int ran in a cycle in which another atomic returned early.
C5_Witness ==
    \E i, j \in LogIdx : log[i].kind = "int" /\ log[j].kind = "none"

\* Atomic a executed a delta in the cycle that is running.
HadDelta(a) == \E i \in LogIdx : log[i].a = a /\ log[i].kind \in Deltas

\* C6: after a delta executed by an atomic in transition(t), its clock is
\* t_last = t and t_next = t + ta(), ta() taken on the state the delta left.
C6_ClockAfterDelta ==
    \A a \in Atomics :
        (InCycle /\ HadDelta(a)) =>
            /\ t_last[a] = t
            /\ t_next[a] = Plus(t, Ta(sigma[a]))

\* A delta at time 1 left a state whose ta() is 1: the atomic is due at 2.
C6_Witness ==
    \E a \in Atomics :
        InCycle /\ HadDelta(a) /\ t = 1 /\ sigma[a] = 1 /\ t_next[a] = 2

\* Something has been stopped.
AnyStopped == \E a \in Atomics : stopped[a] > 0

\* C7: in a run of simulate_time or simulate_steps every atomic's start hook
\* is invoked exactly once, before any lambda or delta of any atomic, and
\* right after start(t_start) the atomic's clock is t_last = t_start (0) and
\* t_next = t_start + ta().
C7_StartOnceFirst ==
    /\ \A a \in Atomics : started[a] <= 1
    /\ (pc \notin {"idle", "start"}) => \A a \in Atomics : started[a] = 1
    /\ (\E i \in LogIdx : log[i].kind \in Transitions \cup {"lambda"}) =>
          \A a \in Atomics : started[a] = 1
    /\ \A a \in Atomics :
          (pc = "start" /\ started[a] = 1) =>
              (t_last[a] = 0 /\ t_next[a] = Plus(0, Ta(sigma[a])))

\* The start phase is over, every atomic started, one of them due at time 1.
C7_Witness ==
    /\ pc = "start"
    /\ stack = <<>>
    /\ \A a \in Atomics : started[a] = 1
    /\ \E a \in Atomics : t_next[a] = 1

\* C8: in a run that returns, every atomic's stop hook is invoked exactly
\* once, after the last collection and transition, and no lambda or delta is
\* invoked after a stop.
C8_StopOnceLast ==
    /\ \A a \in Atomics : stopped[a] <= 1
    /\ pc = "done" => \A a \in Atomics : stopped[a] = 1
    /\ AnyStopped =>
          /\ pc \in {"stop", "done"}
          /\ \A k \in 1..Len(stack) : stack[k].op = "stop"
    /\ \A i, j \in LogIdx : (i < j /\ log[i].kind = "stop") => log[j].kind = "stop"

\* The run returned after a cycle in which a delta ran.
C8_Witness ==
    /\ pc = "done"
    /\ \E i \in LogIdx : log[i].kind \in Deltas
    /\ \A a \in Atomics : stopped[a] = 1

\* Coupled model n is inside its own start or transition.
Running(n) ==
    \E k \in 1..Len(stack) :
        stack[k].node = n /\ stack[k].op \in {"start", "transition"}

\* x is the least t_next among the children of n, +inf if n has none.
IsMinOfChildren(x, n) ==
    /\ \A c \in Range(Components(n)) : x <= t_next[c]
    /\ \/ \E c \in Range(Components(n)) : x = t_next[c]
       \/ Components(n) = <<>> /\ x = Inf

\* C9: for every coupled model, once its start or its transition has
\* returned, its t_next is the minimum of its children's t_next, and +inf
\* when it has no children (until stop closes the clocks).
C9_CoupledTNextIsMin ==
    \A n \in Coupleds :
        (pc \notin {"stop", "done"} /\ ~Running(n)) => IsMinOfChildren(t_next[n], n)

\* A transition left sub due at a finite time before A, and top at sub's time.
C9_Witness ==
    /\ pc = "clear"
    /\ t_next["sub"] < Inf
    /\ t_next["sub"] < t_next["A"]
    /\ t_next["top"] = t_next["sub"]
    /\ t_next["emp"] = Inf
    /\ \E i \in LogIdx : log[i].kind \in Deltas

\* The root's clear_ports has returned.
CycleEnded == pc = "loop" \/ (pc = "clear" /\ stack = <<>>)

\* C10: at the end of every cycle of the coordinator every input and output
\* port of every component of the tree is empty.
C10_PortsEmptyAfterCycle ==
    CycleEnded => \A p \in AllPorts : ports[p] = <<>>

\* A cycle ended in which a value was delivered to an atomic.
C10_Witness ==
    /\ CycleEnded
    /\ \E i \in LogIdx : log[i].kind \in {"ext", "conf"}
    /\ \A p \in AllPorts : ports[p] = <<>>

\* The component on which the kernel is about to invoke collection or
\* transition: the child the top frame is at, or the root when the
\* coordinator is about to call it.
AboutToInvoke(c) ==
    \/ /\ stack /= <<>>
       /\ Top.op \in {"collection", "transition"}
       /\ CallStage(Top)
       /\ Child(Top) = c
    \/ /\ c = Root
       /\ stack = <<>>
       /\ \/ pc = "loop" /\ LoopCondition
          \/ pc = "collection"

\* C11: at the moment collection or transition (and so lambda or a delta) is
\* invoked on a component, atomic or coupled, at the cycle time t, the
\* component's clock satisfies t_last <= t <= t_next.
C11_TimeWithinClock ==
    /\ \A c \in Nodes : AboutToInvoke(c) => (t_last[c] <= t /\ t <= t_next[c])
    /\ \A i \in LogIdx :
          log[i].kind \in Deltas \cup {"lambda"} =>
              (log[i].tl <= log[i].t /\ log[i].t <= log[i].tn)

\* Transition is about to be invoked on B, strictly inside its clock
\* interval, from the transition of the coupled model sub.
C11_Witness ==
    /\ AboutToInvoke("B")
    /\ Top.op = "transition"
    /\ Top.node = "sub"
    /\ t_last["B"] < t /\ t < t_next["B"]
    /\ ~InputEmpty("B")

\* Number of occurrences of v in sequence s.
Count(v, s) == Cardinality({i \in 1..Len(s) : s[i] = v})

\* Every value of sequence src is in sequence dst, as many times at least.
Contains(dst, src) == \A v \in Range(src) : Count(v, src) <= Count(v, dst)

\* Every coupling of the table holds its source's values at its destination.
Delivered(table) ==
    \A i \in 1..Len(table) : Contains(ports[table[i][2]], ports[table[i][1]])

\* The atomic children of n that were imminent when the cycle began have
\* all executed their lambda.
ChildrenCollected(n) ==
    \A a \in Range(Components(n)) \cap Atomics :
        ImminentAtCycleStart(a, t) =>
            \E i \in LogIdx : log[i].kind = "lambda" /\ log[i].a = a

\* The top frame runs operation op and is at one of the stages.
TopAt(op, stages) == stack /= <<>> /\ Top.op = op /\ Stage(Top) \in stages

AtFirstTransition ==
    stack /= <<>> /\ Top.op = "transition" /\ CallStage(Top) /\ Top.idx = 1

SkipsCollection ==
    /\ stack /= <<>>
    /\ Top.op = "collection"
    /\ CallStage(Top)
    /\ Child(Top) \in Coupleds
    /\ t < t_next[Child(Top)]

\* C13: collection(t) called on a coupled model with t < t_next returns at
\* once: the caller moves on, no frame of the child is entered, no lambda is
\* invoked, no port and no clock changes; and the body of collection never
\* runs for a coupled model with t < t_next.
C13_NotImminentCollectionIsNoOp ==
    /\ [](\A k \in 1..Len(stack) :
            stack[k].op = "collection" => t >= t_next[stack[k].node])
    /\ [][SkipsCollection =>
            /\ stack' = StepTop(stack)
            /\ ports' = ports
            /\ t_last' = t_last
            /\ t_next' = t_next
            /\ sigma' = sigma
            /\ log' = log]_vars

\* The root's collection has passed over sub, which is due later, after A
\* put a value on its output; nothing of sub's subtree was touched.
C13_Witness ==
    /\ TopAt("collection", {"ic", "eoc"})
    /\ Top.node = Root
    /\ t < t_next["sub"]
    /\ ports["A.out"] /= <<>>
    /\ ports["B.out"] = <<>> /\ ports["sub.out"] = <<>>
    /\ \A i \in LogIdx : log[i].a /= "B"

\* transition(t) returned on atomic a in the cycle that is running.
Transitioned(a) == \E i \in LogIdx : log[i].a = a /\ log[i].kind \in Transitions

\* transition(t) has been called on every child of n: an atomic child has
\* its outcome in the log, a coupled child has set its t_last to t.
ChildrenTransitioned(n) ==
    \A c \in Range(Components(n)) :
        IF c \in Atomics THEN Transitioned(c) ELSE t_last[c] = t

\* The ports of every child of n are empty.
ChildrenCleared(n) ==
    \A c \in Range(Components(n)) : \A p \in PortsOf(c) : ports[p] = <<>>

\* The root's transition has returned.
TransitionReturned == (pc = "transition" /\ stack = <<>>) \/ pc = "clear"

\* C14 as stated: in transition(t) of a coupled model every EIC is propagated
\* before the transition of any child; then every child's transition(t) is
\* called and the child's ports are cleared; finally t_last is set to t; for
\* every coupled model in every cycle.
C14_Original ==
    /\ TopAt("transition", {"xic", "eic"}) =>
          \A a \in Range(Components(Top.node)) \cap Atomics : ~Transitioned(a)
    /\ AtFirstTransition => Delivered(EIC(Top.node))
    /\ TopAt("transition", {"set"}) =>
          (ChildrenTransitioned(Top.node) /\ ChildrenCleared(Top.node))
    /\ TransitionReturned => \A n \in Coupleds : t_last[n] = t

\* C14 (amended): as stated, but the ports of a child are cleared right
\* after its transition only in simulation.rs; in modeling/coupled.rs they
\* are cleared by the root's recursive clear_ports(), after the root's
\* transition has returned and before the next cycle.
C14_TransitionOrder ==
    /\ TopAt("transition", {"xic", "eic"}) =>
          \A a \in Range(Components(Top.node)) \cap Atomics : ~Transitioned(a)
    /\ AtFirstTransition => Delivered(EIC(Top.node))
    /\ TopAt("transition", {"set"}) =>
          /\ ChildrenTransitioned(Top.node)
          /\ impl = "simulation" => ChildrenCleared(Top.node)
    /\ TransitionReturned => \A n \in Coupleds : t_last[n] = t
    /\ CycleEnded => \A n \in Coupleds : ChildrenCleared(n)

\* modeling/coupled.rs: the root's transition is at its final set_sim_t; B
\* received a value through sub's EIC and executed a delta; sub, which was
\* not imminent, and emp have set t_last to t; B's input is not yet cleared.
C14_Witness ==
    /\ impl = "modeling"
    /\ TopAt("transition", {"set"})
    /\ Top.node = Root
    /\ \E i \in LogIdx :
          log[i].a = "B" /\ log[i].kind = "ext" /\ ~log[i].in_empty
    /\ ports["B.in"] /= <<>>
    /\ t > 0
    /\ t_last["sub"] = t /\ t_last["emp"] = t

\* The coordinator's position moves only along
\* start; read; { collection; transition; clear_ports; read }; stop; return.
PcOrder ==
    /\ pc = "idle" => pc' \in {"idle", "start"}
    /\ pc = "start" => pc' \in {"start", "loop"}
    /\ pc = "loop" => pc' \in {"loop", "collection", "stop"}
    /\ pc = "collection" => pc' \in {"collection", "transition"}
    /\ pc = "transition" => pc' \in {"transition", "clear"}
    /\ pc = "clear" => pc' \in {"clear", "loop"}
    /\ pc = "stop" => pc' \in {"stop", "done"}
    /\ pc = "done" => pc' = "done"

\* C15: simulate_time(t_end) starts at time 0, runs a cycle
\* {collection(t); transition(t); clear_ports()} at t = the root's t_next
\* only while t < t_end, and then stops with the t that ended the loop: no
\* lambda, delta or transition happens at a time t >= t_end, and when the
\* t_next read after start is already >= t_end the next step is stop.
C15_SimulateTime ==
    /\ [](mode = "time" =>
            /\ (pc = "start" /\ stack = <<>>) => t_last[Root] = 0
            /\ pc = "loop" => t = t_next[Root]
            /\ InCycle => t < t_end
            /\ \A i \in LogIdx :
                  log[i].kind \in Transitions \cup {"lambda"} => log[i].t < t_end
            /\ pc \in {"stop", "done"} =>
                  /\ t >= t_end
                  /\ \A a \in Atomics : stopped[a] = 1 => t_last[a] = t)
    /\ [][mode = "time" =>
            /\ PcOrder
            /\ (pc = "loop" /\ t >= t_end) => pc' \in {"loop", "stop"}
            /\ (pc = "loop" /\ t < t_end) => pc' \in {"loop", "collection"}]_vars

\* simulate_time(1) returned: a cycle ran at time 0 and left the root due
\* at time 1, which ended the loop; every atomic was stopped at time 1.
C15_Witness ==
    /\ mode = "time"
    /\ pc = "done"
    /\ t_end = 1
    /\ t = 1
    /\ \E i \in LogIdx : log[i].kind \in Deltas /\ log[i].t = 0
    /\ \A a \in Atomics : t_last[a] = 1

\* C16: simulate_steps(n) terminates, also when every ta() is 0; it runs at
\* most n cycles, fewer than n only if the root's t_next became +inf, none
\* when n = 0, and it stops every atomic exactly once afterwards.
C16_SimulateStepsTerminates ==
    /\ [](mode = "steps" =>
            /\ cycles <= n_arg
            /\ n_arg = 0 => (cycles = 0 /\ ~InCycle)
            /\ (pc \in {"stop", "done"} /\ cycles < n_arg) => t = Inf
            /\ \A a \in Atomics : stopped[a] <= 1
            /\ AnyStopped => pc \in {"stop", "done"}
            /\ pc = "done" => \A a \in Atomics : stopped[a] = 1)
    /\ (mode = "steps") ~> (pc = "done")

\* simulate_steps(2) returned after two cycles, both at time 0, with the
\* root still due at time 0.
C16_Witness ==
    /\ mode = "steps"
    /\ pc = "done"
    /\ n_arg = 2
    /\ cycles = 2
    /\ t = 0
    /\ \A a \in Atomics : stopped[a] = 1

\* The atomics of the subtree of coupled model n.
RECURSIVE AtomicsUnder(_)
AtomicsUnder(n) ==
    UNION {IF c \in Atomics THEN {c} ELSE AtomicsUnder(c) : c \in Range(Components(n))}

\* Coupled model n has no input and no atomic of its subtree was imminent
\* when the cycle began.
Quiescent(n) ==
    /\ InputEmpty(n)
    /\ \A a \in AtomicsUnder(n) : ~ImminentAtCycleStart(a, t)

\* C17: quiescence.  In a cycle at time t an atomic with t_next /= t whose
\* input ports are all empty when its transition is reached executes no delta
\* and keeps its user state and clock; and while the transition of a coupled
\* model without input and without imminent atomic runs, no delta is
\* invoked in its subtree (the root's subtree is the whole tree).
C17_Quiescence ==
    /\ [](\A i \in LogIdx :
            (log[i].kind \in Transitions /\ log[i].in_empty /\ log[i].t /= log[i].tn)
                => (log[i].kind = "none" /\ OtherDeltas(i) = {}))
    /\ [](\A k \in 1..Len(stack) :
            (stack[k].op = "transition" /\ Quiescent(stack[k].node))
                => \A a \in AtomicsUnder(stack[k].node) : ~HadDelta(a))
    /\ [][\A a \in Atomics :
            (AtAtomic(a, "transition") /\ InputEmpty(a) /\ t /= t_next[a])
                => /\ sigma'[a] = sigma[a]
                   /\ t_last'[a] = t_last[a]
                   /\ t_next'[a] = t_next[a]]_vars

\* A cycle at time 0 in which A executed a delta while B, due at time 1 and
\* without input, was passed over and is still due at time 1.
C17_Witness ==
    /\ pc = "clear"
    /\ t = 0
    /\ \E i \in LogIdx :
          log[i].a = "B" /\ log[i].kind = "none" /\ log[i].in_empty /\ log[i].tn = 1
    /\ \E j \in LogIdx : log[j].a = "A" /\ log[j].kind \in Deltas
    /\ t_next["B"] = 1 /\ sigma["B"] = 1

\* The component a port belongs to.
PortOwner(p) == CHOOSE n \in Nodes : p \in PortsOf(n)

\* The atomics whose values can be buffered in port p: a value is the name
\* of the atomic whose lambda produced it.
Emitters(p) ==
    IF PortOwner(p) \in Atomics THEN {PortOwner(p)} ELSE AtomicsUnder(PortOwner(p))

\* Couplings i < j of the table have the same destination.
FanIn(table, i, j) ==
    i \in 1..Len(table) /\ j \in 1..Len(table) /\ i < j /\ table[i][2] = table[j][2]

\* In the destination of the fan-in couplings i < j no value of j's source
\* comes before a value of i's source.
InDeclaredOrder(table, i, j) ==
    LET buf == ports[table[i][2]]
    IN  \A x, y \in 1..Len(buf) :
            (buf[x] \in Emitters(table[j][1]) /\ buf[y] \in Emitters(table[i][1]))
                => y < x

\* The coupling tables of the model.
Tables == UNION {{EIC(n), IC(n), EOC(n)} : n \in Coupleds}

\* C19: in a destination port with several couplings into it the values
\* received in a cycle are grouped by source in the order in which the
\* couplings were declared.
C19_FanInDeclarationOrder ==
    \A table \in Tables :
        \A i, j \in 1..Len(table) :
            FanIn(table, i, j) => InDeclaredOrder(table, i, j)

\* All the couplings of coupled model n.
Couplings(n) == EIC(n) \o IC(n) \o EOC(n)

\* The number of occurrences of v in the sources of the couplings of the
\* table, from the i-th on, whose destination is d.
RECURSIVE SourceCount(_, _, _, _)
SourceCount(v, d, table, i) ==
    IF i > Len(table) THEN 0
    ELSE (IF table[i][2] = d THEN Count(v, ports[table[i][1]]) ELSE 0)
         + SourceCount(v, d, table, i + 1)

\* Sequence a is a prefix of sequence b.
IsPrefix(a, b) == Len(a) <= Len(b) /\ SubSeq(b, 1, Len(a)) = a

\* C20: propagation is additive.  When the couplings of a coupled model have
\* been propagated (its transition is about to call its first child) every
\* destination holds the multiset union of the values of all its sources;
\* and a propagate only appends: no buffer loses or reorders what it held.
C20_PropagationAdditive ==
    /\ [](AtFirstTransition =>
            \A i \in 1..Len(Couplings(Top.node)) :
                LET d == Couplings(Top.node)[i][2]
                IN  \A v \in Atomics :
                        Count(v, ports[d]) = SourceCount(v, d, Couplings(Top.node), 1))
    /\ [][(stack /= <<>> /\ Stage(Top) \in {"xic", "eic", "ic", "eoc"}) =>
            \A p \in AllPorts : IsPrefix(ports[p], ports'[p])]_vars

\* The root's couplings have been propagated; top.out holds the values of
\* its two sources, A.out and sub.out.
C20_Witness ==
    /\ AtFirstTransition
    /\ Top.node = Root
    /\ ports["A.out"] /= <<>>
    /\ ports["sub.out"] /= <<>>
    /\ Len(ports["top.out"]) = 2

\* C18: determinism.  Two runs of the coordinator over the same topology and
\* the same deterministic user model, with the same argument, leave the same
\* per-atomic counts of delta_int, delta_ext and delta_conf and the same
\* final atomic states and clocks, whatever the order in which the children
\* and the destinations of the couplings are iterated.
C18_Determinism ==
    (hist.run = 2 /\ pc = "done") => Result(hist.counts) = hist.first

\* The second run returned after iterating top's children in another order
\* than the first; both atomics executed deltas, B one on input from A.
C18_Witness ==
    /\ hist.run = 2
    /\ pc = "done"
    /\ order["top"] /= Components("top")
    /\ hist.counts["B"]["ext"] > 0
    /\ hist.counts["A"]["int"] > 0
    /\ hist.counts["A"]["ext"] + hist.counts["A"]["conf"] > 0
    /\ Result(hist.counts) = hist.first


(* ------------------------ properties of construction ------------------- *)

\* The ports a component has in one direction, by name.
InNamed(c, name) == {x \in Range(c.input_ports) : x.name = name}

OutNamed(c, name) == {x \in Range(c.output_ports) : x.name = name}

\* The children of the coupled model under construction.
Has(name) == name \in DOMAIN build.top.components

ChildOf(name) == build.top.components[name]

\* The couplings a table holds, as (source, destination) pairs.
Pairs(table) == {<<src, dst>> : src \in UNION {table[d] : d \in DOMAIN table},
                                dst \in DOMAIN table} \cap
                UNION {{<<src, d>> : src \in table[d]} : d \in DOMAIN table}

\* What a coupling call must answer when it names the sources froms and the
\* destinations tos (empty if the port is unknown), by the three checks in
\* their order: endpoints, element types, duplicate.
Answer(resolved, froms, tos, table) ==
    IF ~resolved THEN {"unknown port", "unknown component"}
    ELSE IF \E x \in froms, y \in tos : x.type /= y.type THEN {"type mismatch"}
    ELSE IF \E x \in froms, y \in tos : <<x, y>> \in Pairs(table)
         THEN {"duplicate coupling"}
    ELSE {"none"}

EicAnswer(pf, c, pt) ==
    LET top == build.top.component
    IN  IF InNamed(top, pf) = {} THEN {"unknown port"}
        ELSE IF ~Has(c) THEN {"unknown component"}
        ELSE Answer(InNamed(ChildOf(c), pt) /= {},
                    InNamed(top, pf), InNamed(ChildOf(c), pt), build.top.eic)

IcAnswer(cf, pf, ct, pt) ==
    IF ~Has(cf) \/ ~Has(ct)
    THEN IF Has(cf) /\ OutNamed(ChildOf(cf), pf) = {}
         THEN {"unknown port", "unknown component"} ELSE {"unknown component"}
    ELSE Answer(OutNamed(ChildOf(cf), pf) /= {} /\ InNamed(ChildOf(ct), pt) /= {},
                OutNamed(ChildOf(cf), pf), InNamed(ChildOf(ct), pt), build.top.ic)

EocAnswer(cf, pf, pt) ==
    IF ~Has(cf)
    THEN {"unknown component"}
    ELSE Answer(OutNamed(ChildOf(cf), pf) /= {} /\ OutNamed(build.top.component, pt) /= {},
                OutNamed(ChildOf(cf), pf), OutNamed(build.top.component, pt),
                build.top.eoc)

\* C21: add_eic, add_ic and add_eoc fail with unknown port or unknown
\* component when an endpoint they name does not exist, else with type
\* mismatch when the element types differ, else with duplicate coupling when
\* the coupling is there already, and succeed otherwise; add_eic with an
\* unknown parent port fails as unknown port whatever the child, and with a
\* known parent port and an unknown child as unknown component.
C21_CouplingChecksInOrder ==
    [][/\ build'.op = "add_eic" =>
              \A pf \in PortNames, c \in ComponentNames, pt \in PortNames :
                  AddEic(pf, c, pt) => build'.err \in EicAnswer(pf, c, pt)
       /\ build'.op = "add_ic" =>
              \A cf \in ComponentNames, pf \in PortNames, ct \in ComponentNames,
                 pt \in PortNames :
                  AddIc(cf, pf, ct, pt) => build'.err \in IcAnswer(cf, pf, ct, pt)
       /\ build'.op = "add_eoc" =>
              \A cf \in ComponentNames, pf \in PortNames, pt \in PortNames :
                  AddEoc(cf, pf, pt) => build'.err \in EocAnswer(cf, pf, pt)]_vars

\* add_eic has failed as unknown component: the parent's port was found, the
\* child was not.
C21_Witness ==
    /\ build.op = "add_eic"
    /\ build.err = "unknown component"
    /\ build.top.component.input_ports /= <<>>
    /\ DOMAIN build.top.components /= ComponentNames

\* Every coupling a table holds joins two ports of one element type.
Typed(table) == \A pr \in Pairs(table) : pr[1].type = pr[2].type

Mismatch(froms, tos) ==
    froms /= {} /\ tos /= {} /\ \E x \in froms, y \in tos : x.type /= y.type

\* A call that failed as type mismatch and left the model as it was.
Refused == build'.err = "type mismatch" /\ build'.top = build.top

\* C22: a coupling call whose two ports exist and differ in element type
\* fails with type mismatch and leaves the three tables as they were; every
\* coupling in the EIC, IC and EOC tables joins two ports of one element type.
C22_TypeMismatchRecordsNothing ==
    /\ [](Typed(build.top.eic) /\ Typed(build.top.ic) /\ Typed(build.top.eoc))
    /\ [][/\ build'.op = "add_eic" =>
                \A pf \in PortNames, c \in ComponentNames, pt \in PortNames :
                    (/\ AddEic(pf, c, pt)
                     /\ Has(c)
                     /\ Mismatch(InNamed(build.top.component, pf),
                                 InNamed(ChildOf(c), pt))) => Refused
          /\ build'.op = "add_ic" =>
                \A cf \in ComponentNames, pf \in PortNames, ct \in ComponentNames,
                   pt \in PortNames :
                    (/\ AddIc(cf, pf, ct, pt)
                     /\ Has(cf) /\ Has(ct)
                     /\ Mismatch(OutNamed(ChildOf(cf), pf),
                                 InNamed(ChildOf(ct), pt))) => Refused
          /\ build'.op = "add_eoc" =>
                \A cf \in ComponentNames, pf \in PortNames, pt \in PortNames :
                    (/\ AddEoc(cf, pf, pt)
                     /\ Has(cf)
                     /\ Mismatch(OutNamed(ChildOf(cf), pf),
                                 OutNamed(build.top.component, pt))) => Refused]_vars

\* add_eic has failed as type mismatch on a model that holds an EIC already.
C22_Witness ==
    /\ build.op = "add_eic"
    /\ build.err = "type mismatch"
    /\ Pairs(build.top.eic) /= {}

\* The number of couplings a table holds (n_eics, n_ics, n_eocs).
NCouplings(table) == Cardinality(Pairs(table))

\* The call names a coupling the table holds.
Present(froms, tos, table) == \E x \in froms, y \in tos : <<x, y>> \in Pairs(table)

\* A call that failed as duplicate coupling and left the table with the
\* same couplings, each once.
Rejected(before, after) ==
    /\ build'.err = "duplicate coupling"
    /\ Pairs(after) = Pairs(before)
    /\ NCouplings(after) = NCouplings(before)
    /\ \A d \in DOMAIN after : Cardinality(after[d]) = Cardinality(before[d])

\* C23: add_eic, add_ic or add_eoc for a (source, destination) pair the
\* table holds already fails with duplicate coupling, and the table holds
\* the same couplings as before the call, the first addition once.
C23_DuplicateCouplingRejected ==
    [][/\ build'.op = "add_eic" =>
              \A pf \in PortNames, c \in ComponentNames, pt \in PortNames :
                  (/\ AddEic(pf, c, pt)
                   /\ Has(c)
                   /\ Present(InNamed(build.top.component, pf),
                              InNamed(ChildOf(c), pt), build.top.eic))
                  => Rejected(build.top.eic, build'.top.eic)
       /\ build'.op = "add_ic" =>
              \A cf \in ComponentNames, pf \in PortNames, ct \in ComponentNames,
                 pt \in PortNames :
                  (/\ AddIc(cf, pf, ct, pt)
                   /\ Has(cf) /\ Has(ct)
                   /\ Present(OutNamed(ChildOf(cf), pf),
                              InNamed(ChildOf(ct), pt), build.top.ic))
                  => Rejected(build.top.ic, build'.top.ic)
       /\ build'.op = "add_eoc" =>
              \A cf \in ComponentNames, pf \in PortNames, pt \in PortNames :
                  (/\ AddEoc(cf, pf, pt)
                   /\ Has(cf)
                   /\ Present(OutNamed(ChildOf(cf), pf),
                              OutNamed(build.top.component, pt), build.top.eoc))
                  => Rejected(build.top.eoc, build'.top.eoc)]_vars

\* add_ic has failed as duplicate coupling; the IC is in the table.
C23_Witness ==
    /\ build.op = "add_ic"
    /\ build.err = "duplicate coupling"
    /\ NCouplings(build.top.ic) = 1

\* The names of a list of ports are pairwise different, and the map holds
\* for each the index of the port of that name.
UniqueNames(ports_map, ports_vec) ==
    /\ \A i, j \in 1..Len(ports_vec) : ports_vec[i].name = ports_vec[j].name => i = j
    /\ DOMAIN ports_map = {ports_vec[i].name : i \in 1..Len(ports_vec)}
    /\ \A i \in 1..Len(ports_vec) : ports_map[ports_vec[i].name] = i - 1

UniquePorts(c) ==
    /\ UniqueNames(c.input_map, c.input_ports)
    /\ UniqueNames(c.output_map, c.output_ports)

\* A call that failed as duplicate port and left the component as it was.
Declined ==
    /\ build'.err = "duplicate port"
    /\ build'.top.component = build.top.component

\* C24: add_in_port (add_out_port) with a name one of the component's input
\* (output) ports bears fails with duplicate port, whatever the element type
\* asked for, and leaves the port maps and port lists as they were; the
\* names of the input ports, and of the output ports, of a component are
\* pairwise different.
C24_DuplicatePortRejected ==
    /\ [](/\ UniquePorts(build.top.component)
          /\ \A c \in DOMAIN build.top.components : UniquePorts(ChildOf(c)))
    /\ [][/\ build'.op = "add_in_port" =>
                \A name \in PortNames, T \in ElementTypes :
                    (/\ AddInPort(name, T)
                     /\ InNamed(build.top.component, name) /= {}) => Declined
          /\ build'.op = "add_out_port" =>
                \A name \in PortNames, T \in ElementTypes :
                    (/\ AddOutPort(name, T)
                     /\ OutNamed(build.top.component, name) /= {}) => Declined]_vars

\* add_in_port has failed as duplicate port on a component with two ports.
C24_Witness ==
    /\ build.op = "add_in_port"
    /\ build.err = "duplicate port"
    /\ Len(build.top.component.input_ports) = 1
    /\ Len(build.top.component.output_ports) = 1

\* C25: add_component with a child whose name a child of the coupled model
\* bears fails with duplicate component and leaves the coupled model, the
\* child of that name included, as it was; the children of a coupled model
\* are kept under their own, pairwise different, names.
C25_DuplicateComponentRejected ==
    /\ [](\A k \in DOMAIN build.top.components : ChildOf(k).name = k)
    /\ [][build'.op = "add_component" =>
              \A child \in ChildComponents :
                  (AddComponent(child) /\ Has(child.name)) =>
                      /\ build'.err = "duplicate component"
                      /\ build'.top = build.top
                      /\ build'.top.components[child.name] = ChildOf(child.name)]_vars

\* add_component has failed as duplicate component while another component
\* of that name was on offer.
C25_Witness ==
    /\ build.op = "add_component"
    /\ build.err = "duplicate component"
    /\ \E child \in ChildComponents :
           Has(child.name) /\ child /= ChildOf(child.name)

(* -------------------------- properties of DEVStone --------------------- *)

Probe == stone.s.probe

\* The coupled model HI::new or HO::new assembled, inside the wrapper that
\* holds the seeder.
StoneFamily == stone.model.components[2]

\* All couplings of one kind in the tree under node.
RECURSIVE TotalEics(_)
TotalEics(node) ==
    Len(node.eic_vec) +
    (IF node.components = <<>> THEN 0
     ELSE LET sub == {i \in 1..Len(node.components) : node.components[i].kind = "coupled"}
          IN  IF sub = {} THEN 0 ELSE TotalEics(node.components[CHOOSE i \in sub : TRUE]))

\* C27: HI with width W >= 1 and depth D >= 1 is assembled with
\* (W-1)(D-1)+1 atomics, W(D-1)+1 EICs, (W-2)(D-1) ICs if W > 2 and none
\* otherwise, and D EOCs, over all levels and without the wrapper of the
\* seeder.
C27_HIStructure ==
    (stone.phase \notin {"none", "new"} /\ stone.family = "HI") =>
        LET W == stone.width
            D == stone.depth
        IN  /\ Probe.n_atomics = (W - 1) * (D - 1) + 1
            /\ Probe.n_eics = W * (D - 1) + 1
            /\ Probe.n_ics = (IF W > 2 THEN (W - 2) * (D - 1) ELSE 0)
            /\ Probe.n_eocs = D
            /\ Probe.n_eics = TotalEics(StoneFamily)

\* HI of width 6 and depth 6 is assembled, with 26 atomics, 31 EICs, 20 ICs
\* and 6 EOCs.
C27_Witness ==
    /\ stone.phase = "built"
    /\ stone.family = "HI"
    /\ stone.width = 6
    /\ stone.depth = 6
    /\ Probe.n_atomics = 26
    /\ Probe.n_eics = 31
    /\ Probe.n_ics = 20
    /\ Probe.n_eocs = 6

\* The number of delta_int, of delta_ext and of events of a DEVStone model
\* of width W and depth D run to the end.
expected_events(W, D) == (((W - 1) * W) \div 2) * (D - 1) + 1

\* C26: HI with width W >= 1 and depth D >= 1, run by the root coordinator
\* to +infinity, has made (W-1)*W/2*(D-1)+1 internal transitions, as many
\* external transitions and observed as many events, over all its atomics.
C26_HIDynamics ==
    (stone.phase = "done" /\ stone.family = "HI") =>
        /\ Probe.n_internals = expected_events(stone.width, stone.depth)
        /\ Probe.n_externals = expected_events(stone.width, stone.depth)
        /\ Probe.n_events = expected_events(stone.width, stone.depth)

\* HI of width 6 and depth 6 has run to the end with 76 transitions of
\* each kind and 76 events.
C26_Witness ==
    /\ stone.phase = "done"
    /\ stone.family = "HI"
    /\ stone.width = 6
    /\ stone.depth = 6
    /\ Probe.n_internals = 76
    /\ Probe.n_externals = 76
    /\ Probe.n_events = 76

\* All couplings of the other kinds in the tree under node.
RECURSIVE TotalEocs(_)
TotalEocs(node) ==
    Len(node.eoc_vec) +
    (IF node.components = <<>> THEN 0
     ELSE LET sub == {i \in 1..Len(node.components) : node.components[i].kind = "coupled"}
          IN  IF sub = {} THEN 0 ELSE TotalEocs(node.components[CHOOSE i \in sub : TRUE]))

\* C28: HO with width W >= 1 and depth D >= 1 is assembled with
\* (W-1)(D-1)+1 atomics, (W+1)(D-1)+1 EICs, (W-2)(D-1) ICs if W > 2 and none
\* otherwise, and W(D-1)+1 EOCs; run to +infinity it has made
\* (W-1)*W/2*(D-1)+1 internal transitions, as many external transitions and
\* observed as many events.
C28_HOStructureAndDynamics ==
    (stone.phase \notin {"none", "new"} /\ stone.family = "HO") =>
        LET W == stone.width
            D == stone.depth
        IN  /\ Probe.n_atomics = (W - 1) * (D - 1) + 1
            /\ Probe.n_eics = (W + 1) * (D - 1) + 1
            /\ Probe.n_ics = (IF W > 2 THEN (W - 2) * (D - 1) ELSE 0)
            /\ Probe.n_eocs = W * (D - 1) + 1
            /\ Probe.n_eocs = TotalEocs(StoneFamily)
            /\ stone.phase = "done" =>
                   /\ Probe.n_internals = expected_events(W, D)
                   /\ Probe.n_externals = expected_events(W, D)
                   /\ Probe.n_events = expected_events(W, D)

\* HO of width 6 and depth 6 has run to the end: 26 atomics, 36 EICs,
\* 20 ICs, 31 EOCs and 76 transitions of each kind.
C28_Witness ==
    /\ stone.phase = "done"
    /\ stone.family = "HO"
    /\ stone.width = 6
    /\ stone.depth = 6
    /\ Probe.n_atomics = 26
    /\ Probe.n_eics = 36
    /\ Probe.n_ics = 20
    /\ Probe.n_eocs = 31
    /\ Probe.n_internals = 76
    /\ Probe.n_externals = 76
    /\ Probe.n_events = 76

(* ------------------------ properties of flat models ------------------- *)

\* simulate_time(+infinity) was called on the coupled model that holds the
\* single atomic A, which was built passive.
Single29 ==
    /\ shape = "single"
    /\ user.init["A"] = Inf
    /\ mode = "time"
    /\ t_end = Inf

\* C29: on a coupled model with a single atomic whose ta() is +infinity,
\* simulate_time(+infinity) returns; it never enters a cycle and calls
\* nothing but start and stop on the atomic (no lambda, no delta), and at
\* the end t_next of the model is +infinity.
C29_PassiveModelTerminates ==
    /\ [](Single29 =>
            /\ ~InCycle
            /\ \A i \in LogIdx : log[i].kind \in {"start", "stop"}
            /\ hist.counts = ZeroCounts
            /\ sigma["A"] = Inf
            /\ pc = "done" =>
                  /\ [i \in LogIdx |-> <<log[i].kind, log[i].a>>] =
                         << <<"start", "A">>, <<"stop", "A">> >>
                  /\ started["A"] = 1
                  /\ stopped["A"] = 1
                  /\ t_next[Root] = Inf
                  /\ t_next["A"] = Inf)
    /\ (Single29 /\ pc = "start") ~> (pc = "done")

\* simulate_time(+infinity) has returned from the passive single atomic.
C29_Witness ==
    /\ Single29
    /\ pc = "done"
    /\ started["A"] = 1
    /\ stopped["A"] = 1
    /\ Len(log) = 2

\* simulate_time(t_end), t_end > 0, was called on the coupled model that
\* holds A and B and the IC from A to B; A was built to emit at once and
\* passivates in delta_int, B was built passive.
Pair30 ==
    /\ shape = "pair"
    /\ user.init = [a \in Atomics |-> IF a = "A" THEN 0 ELSE Inf]
    /\ user.int = Inf
    /\ mode = "time"
    /\ t_end > 0

\* C30: A and B joined by one IC, A emits at t = 0 and is passive
\* afterwards, B is passive at first.  B executes exactly one delta_ext, at
\* t = 0 with e = 0 and with A's value alone on its input; the message
\* causes no delta_conf and no delta_int on B; B executes nothing more
\* unless its delta_ext scheduled it, and then only its delta_int at the
\* time it chose.
C30_OneExternalTransition ==
    /\ [](Pair30 =>
            /\ \A i \in LogIdx :
                  (log[i].a = "B" /\ log[i].kind \in Deltas) =>
                      \/ log[i].kind = "ext" /\ log[i].t = 0 /\ log[i].e = 0
                      \/ log[i].kind = "int" /\ user.ext = 1 /\ log[i].t = 1
            /\ hist.counts["B"]["ext"] <= 1
            /\ hist.counts["B"]["conf"] = 0
            /\ hist.counts["B"]["int"] <= (IF user.ext = 1 THEN 1 ELSE 0)
            /\ InCycle => t = 0 \/ (user.ext = 1 /\ t = 1)
            /\ pc = "done" =>
                  /\ hist.counts["B"]["ext"] = 1
                  /\ hist.counts["B"]["int"] = (IF user.ext = 1 /\ t_end > 1 THEN 1 ELSE 0)
                  /\ hist.counts["A"] = [k \in Deltas |-> IF k = "int" THEN 1 ELSE 0])
    /\ [][(Pair30 /\ hist'.counts["B"]["ext"] /= hist.counts["B"]["ext"]) =>
            /\ ports["B.in"] = <<"A">>
            /\ t = 0
            /\ Elapsed("B", t) = 0
            /\ t_next["B"] = Inf]_vars

\* The run is over: B executed its one delta_ext and stayed passive.
C30_Witness ==
    /\ Pair30
    /\ user.ext = Inf
    /\ pc = "done"
    /\ hist.counts["B"] = [k \in Deltas |-> IF k = "ext" THEN 1 ELSE 0]
    /\ hist.counts["A"]["int"] = 1

(* ---------------------- properties of the kernel, continued ------------ *)

\* The top frame is at the final set_sim_t of operation op.
SettingClock(op) == stack /= <<>> /\ Top.op = op /\ Stage(Top) = "set"

\* C31: Coupled::start sets the clock of the coupled model after every child
\* was started, to t_last = t_start (0) and t_next = the least t_next of the
\* children; Coupled::stop sets it after every child was stopped, to
\* t_last = t_stop and t_next = +infinity; when simulate_time or
\* simulate_steps has returned every component of the tree, atomic or
\* coupled, has t_next = +infinity and t_last = the stop time.
C31_StartStopClocks ==
    /\ [](pc = "done" => \A n \in Nodes : t_next[n] = Inf /\ t_last[n] = t)
    /\ [][SettingClock("start") =>
            /\ \A a \in AtomicsUnder(Top.node) : started[a] = 1
            /\ \A c \in Range(Components(Top.node)) :
                   c \in Coupleds => IsMinOfChildren(t_next[c], c) /\ t_last[c] = 0
            /\ t_last'[Top.node] = 0
            /\ IsMinOfChildren(t_next'[Top.node], Top.node)]_vars
    /\ [][SettingClock("stop") =>
            /\ \A a \in AtomicsUnder(Top.node) : stopped[a] = 1
            /\ \A c \in Range(Components(Top.node)) :
                   t_next[c] = Inf /\ t_last[c] = t
            /\ t_last'[Top.node] = t
            /\ t_next'[Top.node] = Inf]_vars

\* A run returned that was stopped at a finite time after a cycle: every
\* clock is closed at the stop time.
C31_Witness ==
    /\ pc = "done"
    /\ t = 1
    /\ \E a \in Atomics : sigma[a] < Inf
    /\ \A n \in Nodes : t_next[n] = Inf /\ t_last[n] = 1

(* --------------------- properties of the parallel features ------------ *)

\* The threads of control there are.
Threads == (IF stack = <<>> THEN {} ELSE {stack}) \cup pool

\* The top frame of thread q propagates couplings.
Propagating(q) == Stage(q[Len(q)]) \in {"xic", "eic", "ic", "eoc"}

\* The propagations <<thread, coupling>> that may execute next: in each
\* thread that propagates, the next coupling of every group.
Tasks ==
    UNION {{<<q, i>> : i \in NextCouplings(q[Len(q)])} :
              q \in {r \in Threads : Propagating(r)}}

\* The coupling task x is about to propagate.
TaskCoupling(x) ==
    Table(x[1][Len(x[1])].node, Stage(x[1][Len(x[1])]))[x[2]]

\* C32: with parallel propagation, no two propagations that can run
\* concurrently write into the same destination port, nor does one read the
\* port another writes; the couplings into one destination are propagated
\* one after the other, in the order of the table; the EICs and the ICs of
\* a coupled model are not propagated at the same time.
C32_NoConcurrentWritesToOnePort ==
    par =>
        /\ \A x, y \in Tasks :
              x /= y => /\ TaskCoupling(x)[2] /= TaskCoupling(y)[2]
                        /\ TaskCoupling(x)[1] /= TaskCoupling(y)[2]
        /\ \A q \in Threads :
              Propagating(q) =>
                  LET f == q[Len(q)]
                      table == Table(f.node, Stage(f))
                  IN  /\ Stage(f) /= "xic"
                      /\ \A i, j \in 1..Len(table) :
                            (i < j /\ table[i][2] = table[j][2] /\ j \in f.done)
                                => i \in f.done

\* Two groups of ICs of top, each with a value to deliver, can run
\* concurrently.
C32_Witness ==
    /\ par
    /\ stack /= <<>>
    /\ Top.node = "top"
    /\ Stage(Top) = "ic"
    /\ Cardinality(NextCouplings(Top)) = 2
    /\ ports["A.out"] /= <<>>
    /\ ports["sub.out"] /= <<>>

\* C33: the children of a coupled model run their collection, and their
\* transition and clear_ports, as parallel tasks.  Whatever the
\* interleaving of their steps, every delta of every atomic has the kind,
\* the time, the elapsed time, the input values and the resulting state it
\* has in the sequential run, and at the end of every phase of the root the
\* ports, the clocks and the states of the atomics are those of the
\* sequential run.
C33_ChildrenInterleavingsAgree ==
    (par /\ hist.run = 2) =>
        /\ IsPrefix(obs.snaps, obs.first.snaps)
        /\ \A a \in Atomics : IsPrefix(obs.view[a], obs.first.view[a])
        /\ pc = "done" =>
              /\ obs.snaps = obs.first.snaps
              /\ obs.view = obs.first.view
              /\ Result(hist.counts) = hist.first

\* A parallel run has returned in which B executed a delta before A did in
\* one cycle, the reverse of the sequential order, and both received values.
C33_Witness ==
    /\ par
    /\ hist.run = 2
    /\ pc = "done"
    /\ obs.snaps = obs.first.snaps
    /\ obs.view = obs.first.view
    /\ \E i \in 1..Len(obs.view["A"]) : obs.view["A"][i].input["A.in"] /= <<>>
    /\ \E i \in 1..Len(obs.view["B"]) : obs.view["B"][i].input["B.in"] /= <<>>
    /\ \E i, j \in LogIdx :
          /\ i < j
          /\ log[i].a = "B" /\ log[i].kind \in Deltas
          /\ log[j].a = "A" /\ log[j].kind \in Deltas

(* ---------------------- properties of the clocks ----------------------- *)

\* C34: with ta() in [0, +infinity], every component of the tree has
\* t_last <= t_next in every state of a run: as built, after start, during
\* and after every transition, after stop.
C34_LastNotAfterNext ==
    \A n \in Nodes : t_last[n] <= t_next[n]

\* After a transition at time 1: an atomic executed a delta and is due at
\* once again (t_last = t_next = 1), another is due later, and the coupled
\* models above them have set their clocks.
C34_Witness ==
    /\ pc = "clear"
    /\ t = 1
    /\ \E a \in Atomics : HadDelta(a) /\ t_last[a] = 1 /\ t_next[a] = 1
    /\ \E a \in Atomics : t_last[a] < t_next[a] /\ t_next[a] < Inf
    /\ t_last[Root] = 1
    /\ t_next[Root] = 1

\* The calls the user code of the atomic received since transition was
\* entered.
UnitCalls == SubSeq(unit.calls, unit.mark + 1, Len(unit.calls))

\* The atomic is in, or has just returned from, a confluent transition, and
\* its model does not override delta_conf.
InDefaultConf ==
    /\ unit.pc \in {"delta", "returned"}
    /\ ~unit.model.override
    /\ unit.received /= <<>>
    /\ unit.t = unit.entry.t_next

\* The user state delta_int and then delta_ext(0) leave when they run on
\* state s with the input port holding input.
IntThenExt(s, input) ==
    s \o << [hook |-> "delta_int", e |-> 0, input |-> <<>>],
            [hook |-> "delta_ext", e |-> 0, input |-> input] >>

\* C35: an atomic that does not override delta_conf goes through a confluent
\* transition as delta_int() on the state it had, then delta_ext(0) on the
\* state delta_int left, the input port holding the received values all the
\* while; the state left is the one the two calls leave, ta() is evaluated
\* once, after them and on that state, and the clock becomes (t, t + ta).
C35_DefaultConfIsIntThenExt ==
    InDefaultConf =>
      LET mid == Append(unit.before, [hook |-> "delta_int", e |-> 0, input |-> <<>>])
          end == IntThenExt(unit.before, unit.received)
          all == << [hook |-> "delta_int", state |-> unit.before],
                    [hook |-> "delta_ext", state |-> mid],
                    [hook |-> "ta", state |-> end] >>
      IN  /\ unit.input = unit.received
          /\ IsPrefix(UnitCalls, all)
          /\ Len(UnitCalls) = 0 => unit.state = unit.before
          /\ Len(UnitCalls) = 1 => unit.state = mid
          /\ Len(UnitCalls) >= 2 => unit.state = end
          /\ unit.pc = "delta" => Len(UnitCalls) <= 2 /\ unit.t_next = unit.entry.t_next
                                                     /\ unit.t_last = unit.entry.t_last
          /\ unit.pc = "returned" =>
               /\ UnitCalls = all
               /\ unit.t_last = unit.t
               /\ unit.t_next = Plus(unit.t, UnitTa(end))

\* A second confluent transition of a model with the default delta_conf has
\* returned: it happened at time 1, after the atomic had waited since time
\* 0, with two values on the input, and rescheduled the atomic.
C35_Witness ==
    /\ InDefaultConf
    /\ unit.pc = "returned"
    /\ unit.t = 1
    /\ unit.entry.t_last = 0
    /\ Len(unit.received) = 2
    /\ unit.before /= <<>>
    /\ unit.t_next = 2

\* Atomic a executed its lambda in this cycle.
Collected(a) == \E i \in LogIdx : log[i].kind = "lambda" /\ log[i].a = a

\* The number of values v the child owning output port src emitted in the
\* collection of this cycle, itself or its subtree through the EOCs: a
\* deterministic lambda puts one value on the output, the atomic's name.
Emitted(v, src) == IF v \in Emitters(src) /\ Collected(v) THEN 1 ELSE 0

\* The number of values v the couplings of coupled model n, from the i-th of
\* its EICs and ICs on, bring into port d: what the source of an IC emitted
\* in this cycle, what the source of an EIC holds.
RECURSIVE Due(_, _, _, _)
Due(v, d, n, i) ==
    IF i > Len(XIC(n)) THEN 0
    ELSE (IF XIC(n)[i][2] /= d THEN 0
          ELSE IF i <= Len(EIC(n)) THEN Count(v, ports[XIC(n)[i][1]])
          ELSE Emitted(v, XIC(n)[i][1]))
         + Due(v, d, n, i + 1)

\* The coupled model at the top of the stack is about to call transition(t)
\* on its child c.
CallsTransition(c) ==
    stack /= <<>> /\ Top.op = "transition" /\ CallStage(Top) /\ Child(Top) = c

\* The coupled model at the top of the stack is about to propagate the IC
\* coupling k.
AboutToPropagateIC(k) ==
    /\ stack /= <<>>
    /\ Stage(Top) \in {"xic", "ic"}
    /\ \E i \in NextCouplings(Top) : Table(Top.node, Stage(Top))[i] = k
    /\ k \in Range(IC(Top.node))

\* C36: exactly-once same-cycle delivery.  When transition(t) is called on a
\* child, each of its input ports holds, for every IC into it, the values the
\* source child emitted in the collection of this cycle, once per coupling,
\* and nothing else but what the EICs into it bring: nothing of an earlier
\* cycle.  When an IC is propagated its source still holds what was emitted;
\* and between two cycles no IC destination holds anything.
C36_ExactlyOnceSameCycle ==
    /\ \A c \in Nodes :
          CallsTransition(c) =>
             \A d \in Range(InPorts(c)), v \in Atomics :
                 Count(v, ports[d]) = Due(v, d, Top.node, 1)
    /\ \A n \in Coupleds : \A i \in 1..Len(IC(n)) :
          AboutToPropagateIC(IC(n)[i]) =>
             \A v \in Atomics : Count(v, ports[IC(n)[i][1]]) = Emitted(v, IC(n)[i][1])
    /\ (pc = "loop" /\ stack = <<>>) =>
          \A n \in Coupleds : \A i \in 1..Len(IC(n)) : ports[IC(n)[i][2]] = <<>>

\* simulation.rs, the cycle of time 1, after a cycle in which A had emitted
\* already: A emitted again, has made its transition and has been cleared,
\* and transition(1) is about to be called on its sibling sub, whose input
\* holds A's value once.
C36_Witness ==
    /\ impl = "simulation"
    /\ t = 1
    /\ CallsTransition("sub")
    /\ Collected("A")
    /\ ports["A.out"] = <<>>
    /\ ports["sub.in"] = <<"A">>
    /\ hist.counts["A"]["int"] + hist.counts["A"]["conf"] >= 2

\* The couplings Coupled::transition of the coupled model propagates before
\* it calls its children.
StoneInward(node) ==
    node.eic_vec \o (IF impl = "simulation" THEN node.ic_vec ELSE <<>>)

\* The buffers when the coupled model at path, whose transition began in
\* state s, has propagated those couplings.
StoneDelivered(s, node, path) ==
    LET s1 == StonePropagate(s, node.eic_vec, path, 1)
    IN  IF impl = "simulation" THEN StonePropagate(s1, node.ic_vec, path, 1) ELSE s1

\* Couplings i and j of the table read one source and write two
\* destinations.
FanOut(table, i, j) ==
    /\ i /= j
    /\ table[i].cf = table[j].cf /\ table[i].pf = table[j].pf
    /\ <<table[i].ct, table[i].pt>> /= <<table[j].ct, table[j].pt>>

\* In the transition of the model at path, begun in state s, and in the
\* transitions of the coupled models under it: every coupling propagated
\* leaves its source as it was and its destination with all the values of
\* the source, whatever other destinations the source has.  A child's
\* transition begins with the buffers its parent delivered.
RECURSIVE KeepsSource(_, _, _)
KeepsSource(s, node, path) ==
    node.kind = "coupled" =>
       LET s1 == StoneDelivered(s, node, path)
           table == StoneInward(node)
       IN  /\ \A i \in 1..Len(table) :
                 LET from == PortKey(path, table[i].cf, table[i].pf)
                     to == PortKey(path, table[i].ct, table[i].pt)
                 IN  /\ s1.ports[from] = s.ports[from]
                     /\ Contains(s1.ports[to], s.ports[from])
           /\ \A k \in 1..Len(node.components) :
                 KeepsSource(s1, node.components[k],
                             Append(path, node.components[k].name))

\* The coupled models of the tree, each with its path.
StoneCoupleds ==
    {x \in StoneNodes(stone.model, StoneRoot) : x[2].kind = "coupled"}

StoneAtomics ==
    {x \in StoneNodes(stone.model, StoneRoot) : x[2].kind = "atomic"}

\* The seeder has put a value on its output in the collection of this
\* cycle: the transition of the root will place it on the input ports of
\* the outermost DEVStone coupled model.
Seeded ==
    /\ stone.phase = "collection"
    /\ stone.s.ports[<<Append(StoneRoot, Name("seeder", 0)), "output">>] /= <<>>

\* C38: multi-level zero-delay routing.  Upwards: when collection(t) of the
\* root has returned, every EOC destination at every level holds the values
\* of its source, so a value emitted at any depth is on the output of every
\* ancestor.  Downwards: the value placed on the input of the outermost
\* coupled model at cycle t reaches the atomics of every depth within the
\* transition(t) of the root: each of them has executed delta_ext on at
\* least one value and has been rescheduled at t.
C38_ZeroDelayRouting ==
    /\ [](stone.phase = "collection" =>
            \A x \in StoneCoupleds : \A i \in 1..Len(x[2].eoc_vec) :
                LET c == x[2].eoc_vec[i]
                IN  Contains(stone.s.ports[PortKey(x[1], c.ct, c.pt)],
                             stone.s.ports[PortKey(x[1], c.cf, c.pf)]))
    /\ [][Seeded =>
            /\ stone'.phase = "transition"
            /\ \A x \in StoneAtomics :
                  /\ stone'.s.t_last[x[1]] = stone.t
                  /\ stone'.s.t_next[x[1]] = stone.t
                  /\ stone.s.t_next[x[1]] = Inf
            /\ stone'.s.probe.n_externals =
                  stone.s.probe.n_externals + Cardinality(StoneAtomics)
            /\ stone'.s.probe.n_events >=
                  stone.s.probe.n_events + Cardinality(StoneAtomics)]_vars

\* HI of width 6 and depth 6, the collection of the second cycle: the 26
\* atomics of the six levels made their external transition in the first
\* cycle, the innermost atomic, eight models deep, has emitted, and its
\* value is on the output of the outermost coupled model.
C38_Witness ==
    /\ stone.phase = "collection"
    /\ stone.family = "HI"
    /\ stone.width = 6
    /\ stone.depth = 6
    /\ stone.cycles = 2
    /\ Probe.n_externals = 26
    /\ \E x \in StoneAtomics :
          /\ Len(x[1]) = 8
          /\ stone.s.ports[<<x[1], "output">>] = <<0>>
    /\ stone.s.ports[<<Append(StoneRoot, stone.model.components[2].name), "output">>] = <<0>>

\* C39: the cycle times the root coordinator chooses never decrease: t, the
\* time of the current cycle (0 before the first one, the final t_next once
\* the loop is left), is replaced only by a time that is not before it.
C39_CycleTimesNonDecreasing ==
    [][t' >= t]_vars

\* simulate_steps has begun its second cycle and it is at time 0, as the
\* first was: an atomic scheduled itself with ta() = 0 in the first cycle.
C39_Witness ==
    /\ mode = "steps"
    /\ cycles = 2
    /\ pc = "collection"
    /\ t = 0
    /\ \E a \in Atomics : sigma[a] = 0 /\ t_last[a] = 0 /\ t_next[a] = 0

\* The last transition(t) of the atomic found every input port empty and
\* t /= t_next.
ReturnedEarly ==
    /\ unit.pc \in {"returned", "cleared", "idle"}
    /\ unit.n > 0
    /\ unit.received = <<>>
    /\ unit.t /= unit.entry.t_next

\* C40: a transition(t) that finds the input ports of the atomic empty and
\* t /= t_next leaves t_last, t_next and the user state as they were and
\* calls no user code, ta() included; the enclosing coupled model sets its
\* own t_last to t all the same when its transition ends.
C40_EarlyReturnFrame ==
    /\ ReturnedEarly =>
          /\ unit.t_last = unit.entry.t_last
          /\ unit.t_next = unit.entry.t_next
          /\ unit.state = unit.before
          /\ UnitCalls = <<>>
    /\ (unit.pc = "idle" /\ unit.n > 0) => unit.parent.t_last = unit.t

\* A passive atomic, last activated at time 0, was reached by transition(1)
\* with nothing on its input: it is still at (0, +infinity) in the state
\* its delta_ext left, ta() has been called twice in all, at start and after
\* that delta_ext, and its parent is at t_last = 1.
C40_Witness ==
    /\ ReturnedEarly
    /\ unit.pc = "idle"
    /\ unit.t = 1
    /\ unit.t_last = 0
    /\ unit.t_next = Inf
    /\ unit.parent.t_last = 1
    /\ Len(unit.state) = 1
    /\ unit.state[1].hook = "delta_ext"
    /\ Len(unit.calls) = 3
====
